---- MODULE Spec2Model ----
(***************************************************************************)
(* A model of llm-query-api: the token-bucket rate limiter, the retrying   *)
(* HTTP callers, the context builder of rag_answer and the MCP tool        *)
(* gateway (validation, rate limiting, upstream calls, audit records).     *)
(*                                                                         *)
(* Time is counted in integer ticks of the monotonic clock.  A bucket's    *)
(* float token count is kept exactly as the integer tokens*refill_interval *)
(* (field "tokens"), so that elapsed*refill_rate = elapsed*capacity/       *)
(* refill_interval needs no division: one token is refill_interval units.  *)
(***************************************************************************)
EXTENDS Integers, Sequences, FiniteSets, TLC

VARIABLES
    now,        \* time.monotonic(), in ticks
    bucket,     \* the TokenBucket of the single-bucket specification
    burst,      \* history: the consume(1) calls made with no time elapsing
    lastCall,   \* history: the time of the latest consume call (or creation)
    \* rag_answer's context builder loop
    selected,           \* the chunks the loop iterates over
    max_context_chars,  \* payload.max_context_chars
    pos,                \* the position of the loop in selected (1-based)
    context_pairs,      \* list of <<chunk_index, content>>
    references,         \* list of RAGAnswerReference
    remaining_chars,
    bpc,                \* "loop" while iterating, "done" after the loop
    \* one logical upstream call of a client's _request
    call,
    \* the MCP tool gateway (MCPServerApplication)
    limiters,   \* _rate_limiters: tool name -> TokenBucket
    locks,      \* each bucket's asyncio.Lock: the task holding it, or None
    inv,        \* the tool invocations in flight, one per task
    settings,   \* MCPServerSettings: the rate-limit fields
    enforced,   \* history: per tool, the _enforce_rate_limit calls admitted and denied
    \* the answer pipeline (POST /rag/answer) and its pure steps
    answer,     \* one rag_answer request
    selection,  \* the selection step of rag_answer (filter, sort, take)
    sanitized,  \* sanitize_terms and what retrieve_definitions makes of it
    \* RAGFlowClient.ensure_dataset and the RAGFlow service it talks to
    upstream,   \* the datasets RAGFlow holds, and the create requests it accepted
    ensure,     \* the ensure_dataset calls in flight, one per task
    \* the listing fallback of get_glossary
    lookup      \* one scan of a listing for a dataset id

bucketVars == <<now, bucket, burst, lastCall>>
builderVars == <<selected, max_context_chars, pos, context_pairs, references,
                 remaining_chars, bpc>>
retryVars == <<call>>
gatewayVars == <<limiters, locks, inv>>
storeVars == <<upstream, ensure, lookup>>
appVars == <<settings, enforced, answer, selection, sanitized, storeVars>>

vars == <<bucketVars, builderVars, retryVars, gatewayVars, appVars>>

\* ------------------------------------------------------------------ bounds
MaxCapacity == 2
MaxInterval == 2
MaxTime == 5

\* Python's None.
None == "None"

Min(a, b) == IF a < b THEN a ELSE b
Max(a, b) == IF a > b THEN a ELSE b

\* ------------------------------------------------- mcp_server/rate_limiter

\* TokenBucket.__init__: a full bucket created at time t.
TokenBucket(capacity, refill_interval, t) ==
    [capacity |-> capacity,
     tokens |-> capacity * refill_interval,
     refill_interval |-> refill_interval,
     updated_at |-> t]

\* TokenBucket._refill at time t.
refill(b, t) ==
    LET elapsed == t - b.updated_at
    IN  IF elapsed <= 0
        THEN b
        ELSE [b EXCEPT !.updated_at = t,
                       !.tokens = Min(b.capacity * b.refill_interval,
                                      b.tokens + elapsed * b.capacity)]

\* The check of consume, negated: "if self.tokens < amount: raise".
AdmitsOffByOne(b, amount) ==
    ~(b.tokens <= amount * b.refill_interval)

Admits(b, amount) ==
    ~(b.tokens < amount * b.refill_interval)

\* "self.tokens -= amount".
deduct_Double(b, amount) ==
    [b EXCEPT !.tokens = @ - 2 * amount * b.refill_interval]

deduct(b, amount) ==
    [b EXCEPT !.tokens = @ - amount * b.refill_interval]

\* TokenBucket.consume run to completion by one caller at time t: the bucket
\* it leaves and whether it returned (ok) or raised RateLimitExceeded.
consume(b, amount, t) ==
    LET r == refill(b, t)
    IN  IF Admits(r, amount)
        THEN [bucket |-> deduct(r, amount), ok |-> TRUE]
        ELSE [bucket |-> r, ok |-> FALSE]

\* ------------------- mcp_server/client.py, app/services/ragflow_client.py

\* What one attempt of client.request ends in: a response with a status
\* code, or an httpx.RequestError (a transport failure, no response).
Response(status_code) == [kind |-> "response", status_code |-> status_code]
RequestError == [kind |-> "RequestError", status_code |-> 0]

\* The exception an attempt leaves in the retry loop, if any:
\* "if response.status_code >= 500: response.raise_for_status()".
HTTPStatusError(status_code) == [kind |-> "HTTPStatusError", status_code |-> status_code]
NoException == [kind |-> "None", status_code |-> 0]

AttemptException(outcome) ==
    IF outcome.kind = "RequestError" THEN RequestError
    ELSE IF outcome.status_code >= 500 THEN HTTPStatusError(outcome.status_code)
    ELSE NoException

\* LLMQueryAPIClient._request: what the retry loop does after the attempt
\* numbered attempt_number ended in outcome.  AsyncRetrying(stop=
\* stop_after_attempt(retry_attempts), retry=retry_if_exception_type(
\* (RequestError, HTTPStatusError)), reraise=True).
LLMQueryAPIClient_request_OneMore(outcome, attempt_number, retry_attempts) ==
    IF AttemptException(outcome) = NoException THEN "return"
    ELSE IF attempt_number > retry_attempts THEN "reraise"
    ELSE "sleep"

LLMQueryAPIClient_request(outcome, attempt_number, retry_attempts) ==
    IF AttemptException(outcome) = NoException THEN "return"
    ELSE IF attempt_number >= retry_attempts THEN "reraise"
    ELSE "sleep"

\* RAGFlowClient._request: the same loop.
RAGFlowClient_request_Retry4xx(outcome, attempt_number, retry_attempts) ==
    IF outcome.kind = "response" /\ outcome.status_code < 400 THEN "return"
    ELSE IF attempt_number >= retry_attempts THEN "reraise"
    ELSE "sleep"

RAGFlowClient_request(outcome, attempt_number, retry_attempts) ==
    IF AttemptException(outcome) = NoException THEN "return"
    ELSE IF attempt_number >= retry_attempts THEN "reraise"
    ELSE "sleep"

ClientRequest(client, outcome, attempt_number, retry_attempts) ==
    IF client = "LLMQueryAPIClient"
    THEN LLMQueryAPIClient_request(outcome, attempt_number, retry_attempts)
    ELSE RAGFlowClient_request(outcome, attempt_number, retry_attempts)

\* A logical call about to make its first attempt.
NewCall(client, retry_attempts, retry_wait) ==
    [client |-> client, retry_attempts |-> retry_attempts, retry_wait |-> retry_wait,
     attempt_number |-> 1, pc |-> "attempt", attempts |-> <<>>, result |-> NoException]

\* One attempt of the loop at time t, ending in outcome.
AfterAttempt(c, outcome, t) ==
    LET todo == ClientRequest(c.client, outcome, c.attempt_number, c.retry_attempts)
        made == Append(c.attempts, [outcome |-> outcome, at |-> t])
    IN  IF todo = "return"
        THEN [c EXCEPT !.attempts = made, !.pc = "returned", !.result = outcome]
        ELSE IF todo = "reraise"
        THEN [c EXCEPT !.attempts = made, !.pc = "raised",
                       !.result = AttemptException(outcome)]
        ELSE [c EXCEPT !.attempts = made, !.pc = "sleep"]

\* wait_fixed(retry_wait) has elapsed: the next attempt is due.
AfterSleep_Uncounted(c) ==
    [c EXCEPT !.pc = "attempt"]

AfterSleep(c) ==
    [c EXCEPT !.attempt_number = @ + 1, !.pc = "attempt"]

IdleRetry ==
    call = [NewCall("LLMQueryAPIClient", 1, 0) EXCEPT !.pc = "idle"]

\* ------------------------------------------------------ app/routers/rag.py

\* Text is a sequence of characters; " " stands for any whitespace.
IsSpace(ch) == ch = " "

RECURSIVE lstrip(_)
lstrip(s) ==
    IF s # <<>> /\ IsSpace(Head(s)) THEN lstrip(Tail(s)) ELSE s

RECURSIVE rstrip(_)
rstrip(s) ==
    IF s # <<>> /\ IsSpace(s[Len(s)]) THEN rstrip(SubSeq(s, 1, Len(s) - 1)) ELSE s

\* str.strip()
strip(s) == rstrip(lstrip(s))

\* "(chunk.get("content") or "").strip()"
ChunkContent(chunk) ==
    strip(IF chunk.content = None THEN <<>> ELSE chunk.content)

\* "if len(content) > remaining_chars: content = content[:remaining_chars]"
TruncateNever(content, remaining) ==
    content

\* A slice that stops one character short of the budget.
TruncateOneShort(content, remaining) ==
    IF Len(content) > remaining THEN SubSeq(content, 1, remaining - 1) ELSE content

Truncate(content, remaining) ==
    IF Len(content) > remaining THEN SubSeq(content, 1, remaining) ELSE content

\* "chunk_index = len(context_pairs) + 1"
ChunkIndex(pairs) == Len(pairs) + 1

\* RAGAnswerReference(chunk_index=..., chunk_id=chunk.get("id", ""), ...)
Reference(chunk_index, chunk) ==
    [chunk_index |-> chunk_index, chunk_id |-> chunk.id]

\* The state before "for chunk in selected".
IdleBuilder ==
    /\ selected = <<>>
    /\ max_context_chars = 1
    /\ pos = 1
    /\ context_pairs = <<>>
    /\ references = <<>>
    /\ remaining_chars = 1
    /\ bpc = "done"

\* "if remaining_chars <= 0: break"
LoopBreak ==
    /\ bpc = "loop"
    /\ pos <= Len(selected)
    /\ remaining_chars <= 0
    /\ bpc' = "done"
    /\ UNCHANGED <<selected, max_context_chars, pos, context_pairs, references,
                   remaining_chars, bucketVars, retryVars, gatewayVars, appVars>>

\* "if not content: continue"
LoopSkip ==
    /\ bpc = "loop"
    /\ pos <= Len(selected)
    /\ remaining_chars > 0
    /\ ChunkContent(selected[pos]) = <<>>
    /\ pos' = pos + 1
    /\ UNCHANGED <<selected, max_context_chars, context_pairs, references,
                   remaining_chars, bpc, bucketVars, retryVars, gatewayVars, appVars>>

\* The rest of the loop body: truncate, index, append, deduct.
LoopInclude ==
    /\ bpc = "loop"
    /\ pos <= Len(selected)
    /\ remaining_chars > 0
    /\ ChunkContent(selected[pos]) # <<>>
    /\ LET content == Truncate(ChunkContent(selected[pos]), remaining_chars)
           chunk_index == ChunkIndex(context_pairs)
       IN  /\ context_pairs' = Append(context_pairs, <<chunk_index, content>>)
           /\ references' = Append(references, Reference(chunk_index, selected[pos]))
           /\ remaining_chars' = remaining_chars - Len(content)
    /\ pos' = pos + 1
    /\ UNCHANGED <<selected, max_context_chars, bpc, bucketVars, retryVars,
                   gatewayVars, appVars>>

\* The iteration is exhausted.
LoopEnd ==
    /\ bpc = "loop"
    /\ pos > Len(selected)
    /\ bpc' = "done"
    /\ UNCHANGED <<selected, max_context_chars, pos, context_pairs, references,
                   remaining_chars, bucketVars, retryVars, gatewayVars, appVars>>

\* ----------------------------------- mcp_server/utils.py, mcp_server/server.py

\* The characters [A-Za-z0-9] of the default dataset_id_pattern.
Alnum ==
    {"a", "b", "c", "d", "e", "f", "g", "h", "i", "j", "k", "l", "m",
     "n", "o", "p", "q", "r", "s", "t", "u", "v", "w", "x", "y", "z",
     "A", "B", "C", "D", "E", "F", "G", "H", "I", "J", "K", "L", "M",
     "N", "O", "P", "Q", "R", "S", "T", "U", "V", "W", "X", "Y", "Z",
     "0", "1", "2", "3", "4", "5", "6", "7", "8", "9"}

\* MCPServerSettings defaults.
max_query_length == 256
max_terms == 10
max_term_length == 128
search_top_k == 8
definition_top_k == 12
retry_attempts == 3
TopKCap == 1024
DatasetIdTailMax == 127

\* A match of the pattern's first character class alone.
dataset_regex_match_FirstOnly(value) ==
    /\ Len(value) >= 1
    /\ value[1] \in Alnum

\* _dataset_regex.fullmatch(value) for the default pattern
\* ^[A-Za-z0-9][A-Za-z0-9._:-]{0,127}$
dataset_regex_fullmatch(value) ==
    /\ Len(value) >= 1
    /\ value[1] \in Alnum
    /\ Len(value) - 1 <= DatasetIdTailMax
    /\ \A k \in 2..Len(value) : value[k] \in Alnum \cup {".", "_", ":", "-"}

\* What a validator gives: the value it returns, or the ValueError it raises.
Ok(value) == [ok |-> TRUE, value |-> value, error |-> ""]
Err(message) == [ok |-> FALSE, value |-> <<>>, error |-> message]

\* MCPServerApplication._validate_dataset_id
validate_dataset_id(dataset_id) ==
    LET value == strip(dataset_id)
    IN  IF value = <<>> THEN Err("dataset_id is required")
        ELSE IF ~dataset_regex_fullmatch(value)
        THEN Err("dataset_id contains unsupported characters")
        ELSE Ok(value)

\* MCPServerApplication._validate_query
validate_query(query) ==
    LET value == strip(query)
    IN  IF value = <<>> THEN Err("Query text is required.")
        ELSE IF Len(value) > max_query_length
        THEN Err("Query exceeds maximum length")
        ELSE Ok(value)

\* A sanitizer that drops the empty terms and trims nothing.
sanitize_terms_Untrimmed(terms) ==
    SelectSeq(terms, LAMBDA raw : raw # <<>>)

\* utils.sanitize_terms
RECURSIVE sanitize_terms(_)
sanitize_terms(terms) ==
    IF terms = <<>> THEN <<>>
    ELSE LET value == strip(Head(terms))
         IN  IF value = <<>> THEN sanitize_terms(Tail(terms))
             ELSE <<value>> \o sanitize_terms(Tail(terms))

\* MCPServerApplication._validate_terms
validate_terms(terms) ==
    LET normalized == sanitize_terms(terms)
    IN  IF normalized = <<>> THEN Err("At least one term is required.")
        ELSE IF Len(normalized) > max_terms
        THEN Err("A maximum of terms may be requested at once.")
        ELSE IF \E k \in 1..Len(normalized) : Len(normalized[k]) > max_term_length
        THEN Err("Term exceeds maximum length")
        ELSE Ok(normalized)

\* MCPServerApplication._normalize_top_k
normalize_top_k(value) ==
    IF value <= 0 THEN Err("top_k must be greater than zero")
    ELSE Ok(Min(value, TopKCap))

\* An optional integer is <<>> (None) or <<n>>.  Python's "top_k or default":
\* None and 0 are both falsy.
TopKOr(top_k, default) ==
    IF top_k = <<>> \/ top_k[1] = 0 THEN default ELSE top_k[1]

\* MCPServerApplication._build_definition_prompt: the header and one bullet
\* per term.
build_definition_prompt(terms) ==
    [header |-> "Provide glossary definitions for the following terms:",
     bullets |-> terms]

\* What a handler's first lines, up to generate_request_id(), give: the
\* validated arguments, or the first validator's ValueError.
NoArgs == [dataset_id |-> <<>>, question |-> <<>>, top_k |-> 0]

\* _handle_list_glossaries validates nothing.
ValidateListGlossaries(args) ==
    Ok(NoArgs)

\* _handle_get_glossary
ValidateGetGlossary(args) ==
    LET id == validate_dataset_id(args.dataset_id)
    IN  IF ~id.ok THEN id
        ELSE Ok([NoArgs EXCEPT !.dataset_id = id.value])

\* _handle_search_terms
ValidateSearchTerms(args) ==
    LET id == validate_dataset_id(args.dataset_id)
        q == validate_query(args.query)
        k == normalize_top_k(TopKOr(args.top_k, search_top_k))
    IN  IF ~id.ok THEN id
        ELSE IF ~q.ok THEN q
        ELSE IF ~k.ok THEN k
        ELSE Ok([dataset_id |-> id.value, question |-> q.value, top_k |-> k.value])

\* _handle_retrieve_definitions
ValidateRetrieveDefinitions(args) ==
    LET id == validate_dataset_id(args.dataset_id)
        ts == validate_terms(args.terms)
        k == normalize_top_k(TopKOr(args.top_k, Max(definition_top_k, Len(ts.value))))
    IN  IF ~id.ok THEN id
        ELSE IF ~ts.ok THEN ts
        ELSE IF ~k.ok THEN k
        ELSE Ok([dataset_id |-> id.value,
                 question |-> build_definition_prompt(ts.value),
                 top_k |-> k.value])

Validate(tool, args) ==
    CASE tool = "list_glossaries" -> ValidateListGlossaries(args)
      [] tool = "get_glossary" -> ValidateGetGlossary(args)
      [] tool = "search_terms" -> ValidateSearchTerms(args)
      [] tool = "retrieve_definitions" -> ValidateRetrieveDefinitions(args)

\* The handlers that call a validator before generate_request_id().
HasValidation(tool) == tool # "list_glossaries"

\* _ALLOWED_TOOLS
ALLOWED_TOOLS == {"list_glossaries", "get_glossary", "search_terms", "retrieve_definitions"}

\* create_server: the names given to @server.tool.
RegisteredTools ==
    {"list_glossaries", "get_glossary", "search_terms", "retrieve_definitions"}

\* settings.tool_rate_limits when no override is configured.
NoOverrides == [tool \in {} |-> 0]

\* _build_rate_limiters: one bucket per tool, created at time t.
\* A limiter set in which an override of one tool is every tool's capacity.
build_rate_limiters_OverrideAll(overrides, capacity, interval, t) ==
    [tool \in ALLOWED_TOOLS |->
        TokenBucket(IF DOMAIN overrides # {}
                    THEN overrides[CHOOSE other \in DOMAIN overrides : TRUE]
                    ELSE capacity,
                    interval, t)]

build_rate_limiters(overrides, capacity, interval, t) ==
    [tool \in ALLOWED_TOOLS |->
        TokenBucket(IF tool \in DOMAIN overrides THEN overrides[tool] ELSE capacity,
                    interval, t)]

\* "async with self._lock": the lock can be taken when no task holds it.
LockFreeAlways(holder) == TRUE

LockFree(holder) == holder = None

\* _enforce_rate_limit: consume() returned, or its RateLimitExceeded is
\* re-raised as a ValueError that leaves the handler.
enforce_rate_limit_Ignored(admitted) ==
    Ok(<<>>)

enforce_rate_limit(admitted) ==
    IF admitted THEN Ok(<<>>) ELSE Err("Rate limit exceeded")

\* The client method a handler calls first, and its request.
FirstStage(tool) ==
    CASE tool = "list_glossaries" -> "list"
      [] tool = "get_glossary" -> "direct"
      [] tool \in {"search_terms", "retrieve_definitions"} -> "search"

\* Method and path of the request a client method sends.
RequestOf_Upload(stage) ==
    IF stage = "search" THEN "POST /glossaries/{dataset_id}/documents"
    ELSE "GET /glossaries"

RequestOf(stage) ==
    CASE stage \in {"list", "listing"} -> "GET /glossaries"
      [] stage = "direct" -> "GET /glossaries/{dataset_id}"
      [] stage = "search" -> "POST /glossaries/{dataset_id}/retrieve"

\* A 200 response's body: "match" is JSON that holds the glossary asked for
\* (or, for a listing or a search, a well-formed payload), "nomatch" is JSON
\* without it (an empty object, an empty item list), "bad" is not JSON.
\* LLMQueryAPIClient._json
json(body) ==
    IF body = "bad" THEN Err("Invalid JSON received from upstream service")
    ELSE Ok(body)

\* "response.raise_for_status()" of a response with status >= 400.
StatusError(status_code) == Err("HTTPStatusError")

\* LLMQueryAPIClient.fetch_glossary after the direct GET returned response:
\* "fallback" to list_glossaries, or the method's result.
fetch_glossary_direct(response, body) ==
    IF response.status_code \in {404, 405, 501} THEN [next |-> "fallback", result |-> Ok(<<>>)]
    ELSE IF response.status_code >= 400
    THEN [next |-> "end", result |-> StatusError(response.status_code)]
    ELSE [next |-> "end", result |-> json(body)]

\* LLMQueryAPIClient.list_glossaries after _request returned response.
list_glossaries(response, body) ==
    IF response.status_code >= 400 THEN StatusError(response.status_code)
    ELSE json(body)

\* LLMQueryAPIClient.fetch_glossary scanning the listing: the item whose
\* identifier is dataset_id, or None.
fetch_glossary_scan(listing) ==
    IF ~listing.ok THEN listing
    ELSE IF listing.value = "match" THEN Ok("match")
    ELSE Ok(None)

\* LLMQueryAPIClient.search_glossary after _request returned response.
search_glossary(response, body) ==
    IF response.status_code >= 400 THEN StatusError(response.status_code)
    ELSE json(body)

\* _handle_get_glossary's try block after fetch_glossary returned data:
\* "if not data: raise ValueError(... was not found.)".
get_glossary_result(data) ==
    IF ~data.ok THEN data
    ELSE IF data.value # "match" THEN Err("Glossary dataset was not found.")
    ELSE Ok("summary")

\* log_tool_event(status=..., error=str(exc))
AuditRecord(tool, request_id, status, error) ==
    [tool |-> tool, request_id |-> request_id, status |-> status, error |-> error]

\* A task that runs no handler yet.
IdleInvocation ==
    [pc |-> "idle", tool |-> "", args |-> <<>>, validated |-> NoArgs,
     request_id |-> "", seen |-> 0, stage |-> "", call |-> NewCall("LLMQueryAPIClient", 1, 0),
     direct |-> NoException, steps |-> <<>>, calls |-> <<>>, sent |-> <<>>,
     audit |-> <<>>, error |-> "", consumes |-> 0, deducted |-> 0]

Tasks == {"t1", "t2"}

IdleGateway ==
    /\ limiters = build_rate_limiters(NoOverrides, 1, 1, 0)
    /\ locks = [tool \in ALLOWED_TOOLS |-> None]
    /\ inv = [i \in Tasks |-> IdleInvocation]

\* ------------------------------------------- app/services/ragflow_client.py

\* fastapi.HTTPException(status_code, detail); NoHTTPException when none.
HTTPException(status_code, detail) ==
    [kind |-> "HTTPException", status_code |-> status_code, detail |-> detail]

NoHTTPException == [kind |-> "None", status_code |-> 0, detail |-> ""]

\* What a method gives: the value it returns, or the exception it raises.
Returned(value) == [raised |-> FALSE, value |-> value, exc |-> NoHTTPException]
RaisedExc(exc) == [raised |-> TRUE, value |-> <<>>, exc |-> exc]

\* A response body.  is_json says whether response.json() decodes it; code
\* and message are the envelope's fields as optional values (<<>> when the
\* key is absent); chunks is data["chunks"].
Envelope(code, message, chunks) ==
    [is_json |-> TRUE, code |-> code, message |-> message, chunks |-> chunks]

NotJson == [is_json |-> FALSE, code |-> <<>>, message |-> <<>>, chunks |-> <<>>]

\* payload.get("code", 0)
EnvelopeCode(payload) ==
    IF payload.code = <<>> THEN 0 ELSE payload.code[1]

\* status_map.get(code, status.HTTP_502_BAD_GATEWAY)
status_map_AllBadGateway(code) ==
    502

status_map(code) ==
    CASE code = 1001 -> 400
      [] code = 1002 -> 400
      [] code = 400 -> 400
      [] code = 401 -> 401
      [] code = 403 -> 403
      [] code = 404 -> 404
      [] code = 500 -> 502
      [] code = 101 -> 409
      [] OTHER -> 502

\* RAGFlowClient._map_error
map_error(payload) ==
    LET code == EnvelopeCode(payload)
        message == IF payload.message = <<>> THEN "RAGFlow request failed."
                   ELSE payload.message[1]
    IN  HTTPException(status_map(code), message)

\* RAGFlowClient._request_json after _request returned response with body.
request_json(response, body) ==
    IF ~body.is_json
    THEN RaisedExc(HTTPException(502, "Invalid JSON payload received from RAGFlow."))
    ELSE IF EnvelopeCode(body) # 0 THEN RaisedExc(map_error(body))
    ELSE Returned(body)

\* RAGFlowClient.retrieval: response.get("data", {}), of which rag_answer
\* reads data.get("chunks", []).
retrieval(response, body) ==
    LET r == request_json(response, body)
    IN  IF r.raised THEN r ELSE Returned(r.value.chunks)

\* ----------------------------------------------- app/services/llm_client.py

\* What "await self._client.chat.completions.create(...)" gives: an
\* OpenAIError, another exception, or a completion whose choices carry the
\* optional message contents: <<>> for None, <<text>> otherwise.
Completion(choices) == [kind |-> "completion", choices |-> choices]
OpenAIError == [kind |-> "OpenAIError", choices |-> <<>>]
OtherError == [kind |-> "Exception", choices |-> <<>>]

\* "content = (message.content or "").strip()"
MessageContentUnstripped(choice) ==
    IF choice = <<>> THEN <<>> ELSE choice[1]

MessageContent(choice) ==
    strip(IF choice = <<>> THEN <<>> ELSE choice[1])

\* LLMClient.chat
chat(outcome) ==
    IF outcome.kind = "OpenAIError"
    THEN RaisedExc(HTTPException(502, "LLM provider returned an error."))
    ELSE IF outcome.kind = "Exception"
    THEN RaisedExc(HTTPException(502, "Unexpected error communicating with LLM provider."))
    ELSE IF outcome.choices = <<>>
    THEN RaisedExc(HTTPException(502, "LLM provider returned an empty response."))
    ELSE LET content == MessageContent(outcome.choices[1])
         IN  IF content = <<>>
             THEN RaisedExc(HTTPException(502, "LLM provider returned an empty message."))
             ELSE Returned(content)

\* --------------------------------------- app/routers/rag.py: selection step

\* chunk.get("similarity", 0.0); a chunk's similarity is <<>> when the key
\* is absent.  Similarities are counted in integer steps.
Similarity(chunk) ==
    IF chunk.similarity = <<>> THEN 0 ELSE chunk.similarity[1]

\* "[chunk for chunk in chunks if chunk.get("similarity", 0.0) >= threshold]"
Filtered(chunks, similarity_threshold) ==
    SelectSeq(chunks, LAMBDA chunk : Similarity(chunk) >= similarity_threshold)

\* list.sort(key=similarity, reverse=True): stable, so chunks of equal
\* similarity keep their order.  InsertDesc puts a chunk behind every chunk
\* that is at least as similar.
\* An insertion that puts a chunk in front of the chunks that are equally
\* similar.
RECURSIVE InsertDescBeforeEquals(_, _)
InsertDescBeforeEquals(sorted, chunk) ==
    IF sorted = <<>> THEN <<chunk>>
    ELSE IF Similarity(Head(sorted)) > Similarity(chunk)
    THEN <<Head(sorted)>> \o InsertDescBeforeEquals(Tail(sorted), chunk)
    ELSE <<chunk>> \o sorted

RECURSIVE InsertDesc(_, _)
InsertDesc(sorted, chunk) ==
    IF sorted = <<>> THEN <<chunk>>
    ELSE IF Similarity(Head(sorted)) >= Similarity(chunk)
    THEN <<Head(sorted)>> \o InsertDesc(Tail(sorted), chunk)
    ELSE <<chunk>> \o sorted

RECURSIVE SortedDescFrom(_, _)
SortedDescFrom(sorted, chunks) ==
    IF chunks = <<>> THEN sorted
    ELSE SortedDescFrom(InsertDesc(sorted, Head(chunks)), Tail(chunks))

RECURSIVE Reversed(_)
Reversed(s) ==
    IF s = <<>> THEN <<>> ELSE Append(Reversed(Tail(s)), Head(s))

\* A sort that puts chunks of equal similarity in reverse order.
SortedDescUnstable(chunks) ==
    SortedDescFrom(<<>>, Reversed(chunks))

SortedDesc(chunks) ==
    SortedDescFrom(<<>>, chunks)

\* "filtered[: payload.top_n]"
Take(chunks, top_n) ==
    SubSeq(chunks, 1, Min(top_n, Len(chunks)))

\* rag_answer lines 37-44
Select(chunks, similarity_threshold, top_n) ==
    Take(SortedDesc(Filtered(chunks, similarity_threshold)), top_n)

\* ------------------------------ app/services/ragflow_client.py: ensure_dataset

\* str.lower() on the letters dataset names are written in here.
LowerChar(ch) ==
    CASE ch = "F" -> "f"
      [] ch = "I" -> "i"
      [] OTHER -> ch

RECURSIVE Lower(_)
Lower(s) ==
    IF s = <<>> THEN <<>> ELSE <<LowerChar(Head(s))>> \o Lower(Tail(s))

\* A dataset as RAGFlow lists it; name is optional: <<>> when the key is
\* absent, <<text>> otherwise.
Dataset(id, name) == [id |-> id, name |-> name]

\* item.get("name", "")
ItemName(item) ==
    IF item.name = <<>> THEN <<>> ELSE item.name[1]

\* A JSON envelope carrying "data".
DataEnvelope(code, message, data) ==
    [is_json |-> TRUE, code |-> code, message |-> message, data |-> data]

\* "for item in listings.get("data", []): if item.get("name", "").lower() ==
\* name.lower(): return item": the item returned as <<item>>, or <<>> when
\* the loop ends without a match.
ensure_dataset_scan_Never(data, name) ==
    <<>>

RECURSIVE ensure_dataset_scan(_, _)
ensure_dataset_scan(data, name) ==
    IF data = <<>> THEN <<>>
    ELSE IF Lower(ItemName(Head(data))) = Lower(name) THEN <<Head(data)>>
    ELSE ensure_dataset_scan(Tail(data), name)

\* ------------------------------------------------- states before any request

\* A rag_answer request that has not started.
IdleAnswer ==
    [pc |-> "idle", similarity_threshold |-> 0, top_n |-> 1,
     call |-> [NewCall("RAGFlowClient", 1, 0) EXCEPT !.pc = "idle"],
     retrieval_calls |-> 0, requests |-> 0, chat_calls |-> 0,
     response |-> NoException, body |-> NotJson, completion |-> OtherError,
     result |-> Returned(<<>>)]

IdleSelection ==
    [pc |-> "idle", chunks |-> <<>>, similarity_threshold |-> 0, top_n |-> 1,
     once |-> <<>>, twice |-> <<>>]

IdleSanitized ==
    [pc |-> "idle", terms |-> <<>>, once |-> <<>>, twice |-> <<>>,
     question |-> build_definition_prompt(<<>>), error |-> ""]

NoneEnforced ==
    [tool \in ALLOWED_TOOLS |-> [admitted |-> 0, denied |-> 0]]

\* MCPServerSettings(rate_limit_capacity=..., rate_limit_interval_seconds=...,
\* tool_rate_limits=...)
MCPServerSettings(capacity, interval, overrides) ==
    [rate_limit_capacity |-> capacity,
     rate_limit_interval_seconds |-> interval,
     tool_rate_limits |-> overrides]

IdleLimits ==
    /\ settings = MCPServerSettings(1, 1, NoOverrides)
    /\ enforced = NoneEnforced

\* An ensure_dataset call that has not started.
IdleEnsure ==
    [pc |-> "idle", name |-> <<>>,
     call |-> [NewCall("RAGFlowClient", 1, 0) EXCEPT !.pc = "idle"],
     calls |-> <<>>, listing |-> <<>>, result |-> Returned(<<>>)]

\* A listing scan that has not started.
IdleLookup ==
    [pc |-> "idle", dataset_id |-> <<>>, items |-> <<>>, data |-> <<>>,
     result |-> Returned(<<>>)]

IdleStore ==
    /\ upstream = [initial |-> <<>>, datasets |-> <<>>]
    /\ ensure = [i \in Tasks |-> IdleEnsure]
    /\ lookup = IdleLookup

IdlePipeline == answer = IdleAnswer
IdleSelect == selection = IdleSelection
IdleTerms == sanitized = IdleSanitized

IdleApp ==
    /\ IdleStore
    /\ IdleLimits
    /\ IdlePipeline
    /\ IdleSelect
    /\ IdleTerms

\* --------------------------------------- specification: one bucket, one caller

Amounts == {-1, 0, 1, 2}

FreshBurst(afterWait) ==
    [valid |-> TRUE, calls |-> 0, admitted |-> 0, afterWait |-> afterWait]

IdleBucket ==
    /\ now = 0
    /\ bucket = TokenBucket(1, 1, 0)
    /\ burst = FreshBurst(FALSE)
    /\ lastCall = 0

InitBucket ==
    /\ IdleApp
    /\ IdleBuilder
    /\ IdleRetry
    /\ IdleGateway
    /\ now = 0
    /\ \E c \in 1..MaxCapacity, i \in 1..MaxInterval : bucket = TokenBucket(c, i, 0)
    /\ burst = FreshBurst(FALSE)
    /\ lastCall = 0

\* Time passes.
Tick ==
    /\ now < MaxTime
    /\ now' = now + 1
    /\ UNCHANGED <<bucket, burst, lastCall, builderVars, retryVars, gatewayVars, appVars>>

\* One caller runs consume(amount).  The history "burst" counts the calls of
\* consume(1) made since the bucket was last known full (fresh, or a whole
\* refill_interval after the previous call) with no time elapsing between them;
\* afterWait says that the wait followed a burst that had exhausted the bucket.
ConsumeCall(amount) ==
    LET elapsed == now - lastCall
        start == IF elapsed = 0 THEN burst
                 ELSE IF elapsed >= bucket.refill_interval
                      THEN FreshBurst(burst.valid /\ burst.calls > bucket.capacity)
                 ELSE IF burst.valid /\ burst.calls = 0 THEN burst
                 ELSE [burst EXCEPT !.valid = FALSE, !.calls = 0, !.admitted = 0]
        r == consume(bucket, amount, now)
    IN  /\ start.calls <= bucket.capacity + 1
        /\ bucket' = r.bucket
        /\ lastCall' = now
        /\ burst' = IF amount = 1
                    THEN [start EXCEPT !.calls = @ + 1,
                                       !.admitted = @ + (IF r.ok THEN 1 ELSE 0)]
                    ELSE [start EXCEPT !.valid = FALSE, !.calls = @ + 1]
        /\ UNCHANGED <<now, builderVars, retryVars, gatewayVars, appVars>>

NextBucket ==
    \/ Tick
    \/ \E amount \in Amounts : ConsumeCall(amount)

SpecBucket == InitBucket /\ [][NextBucket]_vars

\* C1: a full bucket (fresh, or a whole interval after the previous call)
\* admits exactly the first `capacity` calls of consume(1) made with no time
\* elapsing, and denies every later one.
C1_BurstAdmitsExactlyCapacity ==
    burst.valid => burst.admitted = Min(burst.calls, bucket.capacity)

C1_Witness ==
    /\ burst.valid
    /\ burst.afterWait
    /\ burst.calls = bucket.capacity + 1
    /\ burst.admitted = bucket.capacity
    /\ bucket.capacity = MaxCapacity

\* C3: a bucket's token count is always within [0, capacity], whatever
\* amounts consume was called with.
C3_TokensWithinCapacity ==
    /\ 0 <= bucket.tokens
    /\ bucket.tokens <= bucket.capacity * bucket.refill_interval

\* ------------------------------------- specification: the context builder

MaxChunks == 3
MaxBudget == 4

\* The contents a retrieved chunk may carry: missing, empty, blank, padded,
\* and texts of one to five characters.
Contents ==
    {None, <<>>, <<" ">>, <<" ", "a", " ">>, <<"a", "b">>, <<"a", " ", "b">>,
     <<"a", "b", "c", "d", "e">>}

\* Chunk lists of at most MaxChunks chunks; a chunk's id is its position.
ChunkLists ==
    UNION {[1..n -> Contents] : n \in 0..MaxChunks}

AsChunks(cs) == [k \in 1..Len(cs) |-> [id |-> k, content |-> cs[k]]]

\* max_context_chars is an integer of at least 500 in RAGAnswerRequest; the
\* loop only compares it with text lengths, so it is scaled to 1..MaxBudget.
InitBuilder ==
    /\ IdleApp
    /\ IdleBucket
    /\ IdleRetry
    /\ IdleGateway
    /\ \E cs \in ChunkLists : selected = AsChunks(cs)
    /\ max_context_chars \in 1..MaxBudget
    /\ remaining_chars = max_context_chars
    /\ pos = 1
    /\ context_pairs = <<>>
    /\ references = <<>>
    /\ bpc = "loop"

NextBuilder ==
    \/ LoopBreak
    \/ LoopSkip
    \/ LoopInclude
    \/ LoopEnd

SpecBuilder == InitBuilder /\ [][NextBuilder]_vars

RECURSIVE TotalLen(_)
TotalLen(pairs) ==
    IF pairs = <<>> THEN 0 ELSE Len(Head(pairs)[2]) + TotalLen(Tail(pairs))

\* C4: the context pairs' texts sum to at most the budget, their citation
\* indices are 1..k in selection order, and the reference list has the same
\* length and carries the same indices in the same order.
C4_BudgetAndDenseIndices ==
    /\ TotalLen(context_pairs) <= max_context_chars
    /\ \A j \in 1..Len(context_pairs) : context_pairs[j][1] = j
    /\ Len(references) = Len(context_pairs)
    /\ \A j \in 1..Len(references) : references[j].chunk_index = j

\* An empty chunk was skipped before the second included chunk, which was
\* truncated to fill the budget.
C4_Witness ==
    /\ bpc = "done"
    /\ Len(context_pairs) = 2
    /\ references[2].chunk_id = 3
    /\ Len(context_pairs[2][2]) < Len(ChunkContent(selected[3]))
    /\ TotalLen(context_pairs) = max_context_chars

\* ----------------------------------- specification: one logical upstream call

MaxAttempts == 3
MaxRetryWait == 1

Clients == {"LLMQueryAPIClient", "RAGFlowClient"}
Statuses == {200, 400, 404, 500, 501}
Outcomes == {RequestError} \cup {Response(st) : st \in Statuses}

InitRetry ==
    /\ IdleApp
    /\ IdleBuilder
    /\ IdleBucket
    /\ IdleGateway
    /\ \E client \in Clients, n \in 1..MaxAttempts, w \in 0..MaxRetryWait :
           call = NewCall(client, n, w)

\* "response = await client.request(...)" and what follows in the attempt.
Attempt(outcome) ==
    /\ call.pc = "attempt"
    /\ call' = AfterAttempt(call, outcome, now)
    /\ UNCHANGED <<bucketVars, builderVars, gatewayVars, appVars>>

\* The retry delay passes.
Sleep ==
    /\ call.pc = "sleep"
    /\ now' = now + call.retry_wait
    /\ call' = AfterSleep(call)
    /\ UNCHANGED <<bucket, burst, lastCall, builderVars, gatewayVars, appVars>>

NextRetry ==
    \/ \E outcome \in Outcomes : Attempt(outcome)
    \/ Sleep

SpecRetry == InitRetry /\ [][NextRetry]_vars

Failed(a) == a.outcome.kind = "RequestError" \/ a.outcome.status_code >= 500

\* C5: every attempt but the last failed (transport failure or 5xx) and was
\* followed retry_wait later by the next; a failed attempt with attempts left
\* leaves the call waiting for the next attempt; the first non-5xx response
\* is returned; an error is re-raised only after exactly retry_attempts failed
\* attempts, and it is the last attempt's error.
C5_RetryUntilResponseOrExhausted ==
    LET n == Len(call.attempts)
        last == call.attempts[n]
    IN  /\ n <= call.retry_attempts
        /\ \A k \in 1..(n - 1) : Failed(call.attempts[k])
        /\ \A k \in 2..n : call.attempts[k].at = call.attempts[k - 1].at + call.retry_wait
        /\ (n >= 1 /\ Failed(last) /\ n < call.retry_attempts)
              => (call.pc = "sleep" \/ (call.pc = "attempt" /\ call.attempt_number = n + 1))
        /\ (n >= 1 /\ ~Failed(last))
              => (call.pc = "returned" /\ call.result = last.outcome)
        /\ (n >= 1 /\ Failed(last) /\ n = call.retry_attempts)
              => (call.pc = "raised" /\ call.result = AttemptException(last.outcome))
        /\ call.pc = "raised" => n = call.retry_attempts
        /\ call.pc \in {"returned", "raised", "sleep"} => n >= 1

\* The default three attempts all failed, by a transport failure and by 5xx
\* responses, and the last error was re-raised.
C5_Witness ==
    /\ call.client = "LLMQueryAPIClient"
    /\ call.retry_attempts = 3
    /\ call.retry_wait = 1
    /\ call.pc = "raised"
    /\ Len(call.attempts) = 3
    /\ call.attempts[1].outcome = RequestError
    /\ call.attempts[2].outcome = Response(500)
    /\ call.result = HTTPStatusError(501)

Is4xx(outcome) ==
    outcome.kind = "response" /\ outcome.status_code >= 400 /\ outcome.status_code < 500

\* C6: a logical call whose first response is 4xx makes exactly one attempt
\* and hands that response to its caller, in both clients.
C6_NoRetryOn4xx ==
    (Len(call.attempts) >= 1 /\ Is4xx(call.attempts[1].outcome))
        => /\ Len(call.attempts) = 1
           /\ call.pc = "returned"
           /\ call.result = call.attempts[1].outcome

C6_Witness ==
    /\ call.client = "RAGFlowClient"
    /\ call.retry_attempts = 3
    /\ call.pc = "returned"
    /\ call.result = Response(404)

\* --------------------------------------------- specification: the tool gateway

\* The arguments a client may pass: an identifier that is valid once trimmed,
\* one with a forbidden character, one with an inner space and a blank one; a query, an empty one and
\* one longer than max_query_length; term lists that sanitize to two terms, to
\* none, to more than max_terms, or that hold a term longer than
\* max_term_length; top_k absent, zero, negative and above the cap.
DatasetIdArgs == {<<" ", "a", "b", " ">>, <<"a", "!">>, <<"a", " ", "b">>, <<" ">>}
QueryArgs == {<<"q", " ">>, <<>>, [k \in 1..(max_query_length + 1) |-> "q"]}
TermsArgs ==
    {<< <<" ", "f", "o", "o", " ">>, <<>>, <<"b", "a", "r">> >>,
     << <<>>, <<" ">> >>,
     [k \in 1..(max_terms + 1) |-> <<"t">>],
     << [k \in 1..(max_term_length + 1) |-> "t"] >>}
TopKArgs == {<<>>, <<0>>, <<-1>>, <<2000>>}

\* The valid arguments, from which a call departs in at most one argument.
GoodDatasetId == <<" ", "a", "b", " ">>
GoodQuery == <<"q", " ">>
GoodTerms == << <<" ", "f", "o", "o", " ">>, <<>>, <<"b", "a", "r">> >>

ArgsOf(tool) ==
    CASE tool = "list_glossaries" -> {[name |-> None]}
      [] tool = "get_glossary" -> {[dataset_id |-> d] : d \in DatasetIdArgs}
      [] tool = "search_terms" ->
            {[dataset_id |-> d, query |-> GoodQuery, top_k |-> <<>>] : d \in DatasetIdArgs}
            \cup {[dataset_id |-> GoodDatasetId, query |-> q, top_k |-> <<>>] : q \in QueryArgs}
            \cup {[dataset_id |-> GoodDatasetId, query |-> GoodQuery, top_k |-> k] : k \in TopKArgs}
      [] tool = "retrieve_definitions" ->
            {[dataset_id |-> d, terms |-> GoodTerms, top_k |-> <<>>] : d \in DatasetIdArgs}
            \cup {[dataset_id |-> GoodDatasetId, terms |-> ts, top_k |-> <<>>] : ts \in TermsArgs}
            \cup {[dataset_id |-> GoodDatasetId, terms |-> GoodTerms, top_k |-> k] : k \in TopKArgs}

\* What the upstream may answer to one attempt, with the body it carries,
\* and whether model_dump returns when the handler comes to its result.
Bodies == {"match", "nomatch", "bad"}
GatewayOutcomes ==
    {<<Response(200), b, dumps>> : b \in Bodies, dumps \in BOOLEAN}
        \cup {<<Response(st), "bad", TRUE>> : st \in {400, 404, 405, 500, 501}}
        \cup {<<RequestError, "bad", TRUE>>}

\* The settings of test_rate_limit_enforced_per_tool: one token per tool.  A
\* tick of the gateway's clock is one rate_limit_interval_seconds.
rate_limit_capacity == 1
MaxGatewayTime == 1

InitGateway ==
    /\ IdleApp
    /\ IdleBuilder
    /\ IdleRetry
    /\ now = 0
    /\ bucket = TokenBucket(1, 1, 0)
    /\ burst = FreshBurst(FALSE)
    /\ lastCall = 0
    /\ limiters = build_rate_limiters(NoOverrides, rate_limit_capacity, 1, 0)
    /\ locks = [tool \in ALLOWED_TOOLS |-> None]
    /\ inv = [i \in Tasks |-> IdleInvocation]

\* The handler leaves by an exception raised before its try block.
Raised(v, message) ==
    [v EXCEPT !.pc = "raised", !.error = message]

\* The handler leaves its try block.  By an exception: the except clause
\* emits an error audit record and re-raises.  With a result: "success =
\* True", then "return result.model_dump(...)"; when model_dump returns
\* (dumps), the finally clause emits a success record; when it raises, the
\* except clause emits an error record and the finally clause, success
\* being set, a success record, and the exception leaves the handler.
Finish(v, r, dumps) ==
    IF ~r.ok
    THEN [v EXCEPT !.pc = "raised", !.error = r.error,
                   !.audit = Append(@, AuditRecord(v.tool, v.request_id, "error", r.error))]
    ELSE IF dumps
    THEN [v EXCEPT !.pc = "done",
                   !.audit = Append(@, AuditRecord(v.tool, v.request_id, "success", ""))]
    ELSE [v EXCEPT !.pc = "raised", !.error = "model_dump",
                   !.audit = @ \o <<AuditRecord(v.tool, v.request_id, "error", "model_dump"),
                                     AuditRecord(v.tool, v.request_id, "success", "")>>]

\* A tool is invoked: the handler runs up to "await self._enforce_rate_limit".
Invoke(i, tool, args) ==
    /\ inv[i].pc = "idle"
    /\ LET v == Validate(tool, args)
           checked == IF HasValidation(tool) THEN <<"validate">> ELSE <<>>
           started == [inv[i] EXCEPT !.tool = tool, !.args = args, !.steps = checked]
       IN  inv' = [inv EXCEPT ![i] =
                IF ~v.ok THEN Raised(started, v.error)
                ELSE [started EXCEPT !.pc = "acquire", !.validated = v.value,
                                     !.request_id = i,
                                     !.steps = Append(checked, "request_id")]]
    /\ UNCHANGED <<limiters, locks, bucketVars, builderVars, retryVars, appVars>>

\* consume(): "async with self._lock" takes the bucket's lock.
Acquire(i) ==
    /\ inv[i].pc = "acquire"
    /\ LockFree(locks[inv[i].tool])
    /\ locks' = [locks EXCEPT ![inv[i].tool] = i]
    /\ inv' = [inv EXCEPT ![i].pc = "locked", ![i].consumes = @ + 1]
    /\ UNCHANGED <<limiters, bucketVars, builderVars, retryVars, appVars>>

\* After consume() the handler goes on to its client call, or raises.
AfterConsume(v, admitted) ==
    LET r == enforce_rate_limit(admitted)
    IN  IF ~r.ok THEN Raised(v, r.error)
        ELSE [v EXCEPT !.pc = "request", !.stage = FirstStage(v.tool),
                       !.call = NewCall("LLMQueryAPIClient", retry_attempts, 0),
                       !.calls = Append(@, FirstStage(v.tool)),
                       !.steps = IF admitted THEN Append(@, "rate_limit") ELSE @]

\* consume(): _refill() and the check "if self.tokens < amount", which
\* raises RateLimitExceeded and releases the lock.
ConsumeCheck(i) ==
    /\ inv[i].pc = "locked"
    /\ LET tool == inv[i].tool
           b == refill(limiters[tool], now)
       IN  /\ limiters' = [limiters EXCEPT ![tool] = b]
           /\ IF Admits(b, 1)
              THEN /\ inv' = [inv EXCEPT ![i].pc = "deduct", ![i].seen = b.tokens]
                   /\ UNCHANGED locks
              ELSE /\ inv' = [inv EXCEPT ![i] =
                            AfterConsume([inv[i] EXCEPT !.seen = b.tokens], FALSE)]
                   /\ locks' = [locks EXCEPT ![tool] = None]
    /\ UNCHANGED <<bucketVars, builderVars, retryVars, appVars>>

\* consume(): "self.tokens -= amount", and the lock is released.
ConsumeDeduct(i) ==
    /\ inv[i].pc = "deduct"
    /\ LET tool == inv[i].tool
       IN  /\ limiters' = [limiters EXCEPT ![tool] = deduct(@, 1)]
           /\ locks' = [locks EXCEPT ![tool] = None]
    /\ LET b == limiters[inv[i].tool]
           taken == b.tokens - deduct(b, 1).tokens
       IN  inv' = [inv EXCEPT ![i] =
                AfterConsume([inv[i] EXCEPT !.deducted = @ + taken], TRUE)]
    /\ UNCHANGED <<bucketVars, builderVars, retryVars, appVars>>

\* The gateway keeps the retry loop's position, not the list of its attempts.
AttemptOf(c, outcome) ==
    [AfterAttempt(c, outcome, 0) EXCEPT !.attempts = <<>>]

\* fetch_glossary goes on from the direct fetch to "listing = await
\* self.list_glossaries(request_id=request_id)": a second logical call of the
\* same invocation.
FallbackThroughLimiter(v, response) ==
    [v EXCEPT !.pc = "acquire", !.direct = response]

Fallback(v, response) ==
    [v EXCEPT !.stage = "listing", !.direct = response,
              !.call = NewCall("LLMQueryAPIClient", retry_attempts, 0),
              !.calls = Append(@, "listing")]

\* The client method's _request returned response: the rest of the method
\* and of the handler's try block.
AfterResponse(v, response, body, dumps) ==
    CASE v.stage = "direct" ->
            LET d == fetch_glossary_direct(response, body)
            IN  IF d.next = "fallback"
                THEN Fallback(v, response)
                ELSE Finish([v EXCEPT !.direct = response], get_glossary_result(d.result),
                            dumps)
      [] v.stage = "listing" ->
            Finish(v, get_glossary_result(fetch_glossary_scan(list_glossaries(response, body))),
                   dumps)
      [] v.stage = "list" -> Finish(v, list_glossaries(response, body), dumps)
      [] v.stage = "search" -> Finish(v, search_glossary(response, body), dumps)

\* One attempt of the handler's upstream call is sent and answered.
UpstreamAttempt(i, outcome, body, dumps) ==
    /\ inv[i].pc = "request"
    /\ inv[i].call.pc = "attempt"
    /\ LET c == AttemptOf(inv[i].call, outcome)
           v == [inv[i] EXCEPT !.call = c,
                               !.sent = Append(@, RequestOf(inv[i].stage)),
                               !.steps = IF inv[i].sent = <<>> THEN Append(@, "upstream") ELSE @]
       IN  inv' = [inv EXCEPT ![i] =
                CASE c.pc = "sleep" -> v
                  [] c.pc = "raised" ->
                        Finish(IF v.stage = "direct" THEN [v EXCEPT !.direct = outcome] ELSE v,
                               Err(c.result.kind), dumps)
                  [] c.pc = "returned" -> AfterResponse(v, outcome, body, dumps)]
    /\ UNCHANGED <<limiters, locks, bucketVars, builderVars, retryVars, appVars>>

\* The retry delay of the handler's upstream call passes.
UpstreamSleep(i) ==
    /\ inv[i].pc = "request"
    /\ inv[i].call.pc = "sleep"
    /\ inv' = [inv EXCEPT ![i].call = AfterSleep(@)]
    /\ UNCHANGED <<limiters, locks, bucketVars, builderVars, retryVars, appVars>>

\* The monotonic clock advances while handlers are suspended.
GatewayTick ==
    /\ now < MaxGatewayTime
    /\ now' = now + 1
    /\ UNCHANGED <<bucket, burst, lastCall, builderVars, retryVars, gatewayVars, appVars>>

Next ==
    \/ \E i \in Tasks, tool \in RegisteredTools : \E args \in ArgsOf(tool) : Invoke(i, tool, args)
    \/ \E i \in Tasks : Acquire(i)
    \/ \E i \in Tasks : ConsumeCheck(i)
    \/ \E i \in Tasks : ConsumeDeduct(i)
    \/ \E i \in Tasks : \E o \in GatewayOutcomes : UpstreamAttempt(i, o[1], o[2], o[3])
    \/ \E i \in Tasks : UpstreamSleep(i)
    \/ GatewayTick

Spec == InitGateway /\ [][Next]_vars

Started(i) == inv[i].pc # "idle"

\* The tasks inside consume()'s critical section on a tool's bucket.
InCriticalSection(tool) ==
    {i \in Tasks : inv[i].tool = tool /\ inv[i].pc \in {"locked", "deduct"}}

\* The invocations of a tool that consume() admitted.
Admitted(tool) ==
    {i \in Tasks : inv[i].tool = tool /\ inv[i].pc \in {"request", "done", "raised"}
                   /\ inv[i].error # "Rate limit exceeded"
                   /\ inv[i].request_id # ""}

\* C2: per bucket at most one invocation is between refill and deduction, the
\* token count an invocation checked is still the bucket's when it deducts,
\* and the invocations admitted never exceed the tokens the bucket had: its
\* capacity plus what refill can have added by now, so never a negative count.
C2_ConsumeIsAtomic ==
    \A tool \in ALLOWED_TOOLS :
        LET b == limiters[tool]
        IN  /\ Cardinality(InCriticalSection(tool)) <= 1
            /\ \A i \in InCriticalSection(tool) : locks[tool] = i
            /\ \A i \in Tasks :
                   (inv[i].tool = tool /\ inv[i].pc = "deduct") => inv[i].seen = b.tokens
            /\ b.tokens >= 0
            /\ Cardinality(Admitted(tool)) * b.refill_interval
                   <= b.capacity * b.refill_interval + now * b.capacity

\* One task has checked the bucket's single token and is about to deduct it
\* while the other waits for the lock of the same bucket.
C2_Witness ==
    /\ inv["t1"].pc = "deduct"
    /\ inv["t1"].seen = limiters[inv["t1"].tool].refill_interval
    /\ inv["t2"].pc = "acquire"
    /\ inv["t2"].tool = inv["t1"].tool

\* The arguments that fail validation: a bad dataset id, an empty or over-long
\* query, no term, too many terms or an over-long term, a non-positive top_k.
BadArguments(tool, args) ==
    \/ tool # "list_glossaries" /\ ~validate_dataset_id(args.dataset_id).ok
    \/ tool = "search_terms" /\ ~validate_query(args.query).ok
    \/ tool = "retrieve_definitions" /\ ~validate_terms(args.terms).ok
    \/ /\ tool \in {"search_terms", "retrieve_definitions"}
       /\ args.top_k # <<>>
       /\ args.top_k[1] <= 0

\* C7: an invocation whose arguments fail validation sends no upstream
\* request and does not return a result; an invocation the rate limiter
\* denied sends no upstream request and never starts the retry loop.
C7_NoUpstreamCallWhenInvalidOrDenied ==
    \A i \in Tasks :
        Started(i) =>
            /\ BadArguments(inv[i].tool, inv[i].args)
                   => (inv[i].sent = <<>> /\ inv[i].pc # "done")
            /\ inv[i].error = "Rate limit exceeded"
                   => (inv[i].sent = <<>> /\ inv[i].stage = "")

IsPrefix(s, t) ==
    /\ Len(s) <= Len(t)
    /\ \A k \in 1..Len(s) : s[k] = t[k]

\* C8 (as amended): the steps of an invocation occur in this order: the
\* inputs are validated (by the handlers that take a dataset id), a
\* correlation id is generated, the tool's rate limit is enforced, the
\* upstream client is invoked; a step occurs only after the one before it.
C8_ValidateThenIdThenRateLimitThenUpstream ==
    \A i \in Tasks :
        Started(i) =>
            IsPrefix(inv[i].steps,
                     IF inv[i].tool = "list_glossaries"
                     THEN <<"request_id", "rate_limit", "upstream">>
                     ELSE <<"validate", "request_id", "rate_limit", "upstream">>)

\* An invocation that validated went through all four steps and returned.
C8_Witness ==
    /\ inv["t1"].pc = "done"
    /\ inv["t1"].tool = "search_terms"
    /\ inv["t1"].steps = <<"validate", "request_id", "rate_limit", "upstream">>

\* C8 as stated: correlation id, then rate limit, then validation, then the
\* upstream client.
OriginalRank(step) ==
    CASE step = "request_id" -> 1
      [] step = "rate_limit" -> 2
      [] step = "validate" -> 3
      [] step = "upstream" -> 4

C8_Original_IdThenRateLimitThenValidate ==
    \A i \in Tasks :
        \A a, b \in 1..Len(inv[i].steps) :
            a < b => OriginalRank(inv[i].steps[a]) < OriginalRank(inv[i].steps[b])

\* C9: every invocation that ended in an exception has emitted an error audit
\* record carrying the exception's text.
C9_EveryFailureIsAudited ==
    \A i \in Tasks :
        inv[i].pc = "raised" =>
            \E k \in 1..Len(inv[i].audit) :
                /\ inv[i].audit[k].status = "error"
                /\ inv[i].audit[k].error = inv[i].error

\* C10: when the direct GET of fetch_glossary ended with status 404, 405 or
\* 501 the client goes on to list the glossaries; when it ended with another
\* 4xx or 5xx status the call fails and no listing request is made.
C10_FallbackOn404_405_501 ==
    \A i \in Tasks :
        (inv[i].tool = "get_glossary" /\ inv[i].direct.kind = "response") =>
            LET st == inv[i].direct.status_code
            IN  /\ st \in {404, 405, 501} => inv[i].stage = "listing"
                /\ (st >= 400 /\ st \notin {404, 405, 501})
                       => (inv[i].pc = "raised" /\ inv[i].stage = "direct")

\* C14: for search_terms and retrieve_definitions a supplied top_k that is
\* zero or negative ends the invocation in the top_k validation error with no
\* upstream request; a supplied top_k above zero raises no such error and
\* min(top_k, 1024) is the value the handler passes to the client.
C14_TopKRejectedOrClamped ==
    \A i \in Tasks :
        (/\ Started(i)
         /\ inv[i].tool \in {"search_terms", "retrieve_definitions"}
         /\ inv[i].args.top_k # <<>>)
            => LET top_k == inv[i].args.top_k[1]
               IN  /\ top_k <= 0
                       => /\ inv[i].pc = "raised"
                          /\ inv[i].error = "top_k must be greater than zero"
                          /\ inv[i].sent = <<>>
                   /\ top_k > 0
                       => /\ inv[i].error # "top_k must be greater than zero"
                          /\ inv[i].request_id # ""
                                 => inv[i].validated.top_k = Min(top_k, 1024)

\* The upstream operations of a read-only surface: listing the glossaries,
\* fetching one glossary, retrieval.
GatewayRequests ==
    {"GET /glossaries", "GET /glossaries/{dataset_id}",
     "POST /glossaries/{dataset_id}/retrieve"}

\* C17: the tools are the four fixed names, each with a bucket of its own,
\* and every upstream request any invocation has sent is a glossary
\* listing, a single-glossary fetch or a retrieval.
C17_FixedReadOnlySurface ==
    /\ RegisteredTools
           = {"list_glossaries", "get_glossary", "search_terms", "retrieve_definitions"}
    /\ DOMAIN limiters = RegisteredTools
    /\ \A i \in Tasks :
           Started(i) =>
               /\ inv[i].tool \in DOMAIN limiters
               /\ \A k \in 1..Len(inv[i].sent) : inv[i].sent[k] \in GatewayRequests
               /\ inv[i].tool = "list_glossaries"
                      => \A k \in 1..Len(inv[i].sent) : inv[i].sent[k] = "GET /glossaries"
               /\ inv[i].tool \in {"search_terms", "retrieve_definitions"}
                      => \A k \in 1..Len(inv[i].sent) :
                             inv[i].sent[k] = "POST /glossaries/{dataset_id}/retrieve"

\* One invocation fetched a glossary directly and through the listing, the
\* other ran a retrieval: the three upstream operations were all issued.
C17_Witness ==
    /\ inv["t1"].tool = "get_glossary"
    /\ inv["t1"].pc = "done"
    /\ inv["t1"].sent = <<"GET /glossaries/{dataset_id}", "GET /glossaries">>
    /\ inv["t2"].tool = "retrieve_definitions"
    /\ inv["t2"].pc = "done"
    /\ inv["t2"].sent = <<"POST /glossaries/{dataset_id}/retrieve">>

\* C19 as stated: a dataset id that holds a space or "!" at any position, the
\* first and the last included, is rejected and its invocation fails before a
\* correlation id is generated or any upstream request is sent; abc-123_DEF
\* is accepted.
C19_DatasetIdWithSpaceOrBangRejected ==
    /\ validate_dataset_id(<<"a", "b", "c", "-", "1", "2", "3", "_", "D", "E", "F">>).ok
    /\ \A i \in Tasks :
           (/\ Started(i)
            /\ inv[i].tool # "list_glossaries"
            /\ \E k \in 1..Len(inv[i].args.dataset_id) :
                   inv[i].args.dataset_id[k] \in {" ", "!"})
               => /\ inv[i].pc = "raised"
                  /\ inv[i].request_id = ""
                  /\ inv[i].sent = <<>>

\* ------------------------------------- specification: one rag_answer request

MaxTopN == 3

limitVars == <<settings, enforced>>

\* The envelope codes an upstream answer may carry, and its message.
EnvelopeCodes == {0, 7, 101, 400, 401, 403, 404, 500, 1001, 1002}
Messages == {<<>>, <<"upstream message">>}

\* The chunk lists a successful retrieval may carry.
AnswerChunkLists ==
    {<<>>,
     <<[id |-> 1, similarity |-> <<2>>, content |-> <<"a", "b">>]>>,
     <<[id |-> 1, similarity |-> <<0>>, content |-> <<"a">>],
       [id |-> 2, similarity |-> <<2>>, content |-> None],
       [id |-> 3, similarity |-> <<1>>, content |-> <<"a", "b", "c", "d", "e">>]>>,
     <<[id |-> 1, similarity |-> <<>>, content |-> <<"a">>],
       [id |-> 2, similarity |-> <<1>>, content |-> <<"b">>],
       [id |-> 3, similarity |-> <<0>>, content |-> <<"c">>]>>}

RetrievalBodies ==
    {NotJson}
        \cup {Envelope(<<c>>, m, <<>>) : c \in EnvelopeCodes \ {0}, m \in Messages}
        \cup {Envelope(c, <<>>, cs) : c \in {<<>>, <<0>>}, cs \in AnswerChunkLists}

\* What RAGFlow may answer to one attempt, with the body it carries.
RetrievalOutcomes ==
    {<<RequestError, NotJson>>, <<Response(500), NotJson>>}
        \cup {<<Response(st), b>> : st \in {200, 404}, b \in RetrievalBodies}

\* What the completion backend may answer.
CompletionOutcomes ==
    {OpenAIError, OtherError, Completion(<<>>),
     Completion(<< <<>> >>),
     Completion(<< << <<" ">> >>, << <<"a">> >> >>)}
        \cup {Completion(<< <<c>> >>) : c \in {<<>>, <<" ">>, <<" ", "a", " ">>, <<"a">>}}

InitAnswer ==
    /\ IdleStore
    /\ IdleBucket
    /\ IdleRetry
    /\ IdleGateway
    /\ IdleLimits
    /\ IdleSelect
    /\ IdleTerms
    /\ selected = <<>>
    /\ max_context_chars \in 1..MaxBudget
    /\ remaining_chars = max_context_chars
    /\ pos = 1
    /\ context_pairs = <<>>
    /\ references = <<>>
    /\ bpc = "done"
    /\ \E n \in 1..MaxAttempts, t \in 0..1, top_n \in 1..MaxTopN :
           answer = [IdleAnswer EXCEPT !.pc = "retrieval",
                                       !.similarity_threshold = t,
                                       !.top_n = top_n,
                                       !.call = NewCall("RAGFlowClient", n, 0),
                                       !.retrieval_calls = 1]

\* The exception of a retry loop that gave up, as it leaves rag_answer.
Escaped(exc) ==
    RaisedExc([kind |-> exc.kind, status_code |-> exc.status_code, detail |-> ""])

\* One attempt of "await ragflow_client.retrieval(...)" is sent and answered;
\* when _request returns, _request_json and the selection step run.
RetrievalAttempt(outcome, body) ==
    /\ answer.pc = "retrieval"
    /\ answer.call.pc = "attempt"
    /\ LET c == AttemptOf(answer.call, outcome)
           a == [answer EXCEPT !.call = c, !.requests = @ + 1]
           r == retrieval(outcome, body)
           got == [a EXCEPT !.response = outcome, !.body = body]
       IN  CASE c.pc = "sleep" ->
                    /\ answer' = a
                    /\ UNCHANGED builderVars
             [] c.pc = "raised" ->
                    /\ answer' = [a EXCEPT !.pc = "raised", !.result = Escaped(c.result)]
                    /\ UNCHANGED builderVars
             [] c.pc = "returned" /\ r.raised ->
                    /\ answer' = [got EXCEPT !.pc = "raised", !.result = r]
                    /\ UNCHANGED builderVars
             [] c.pc = "returned" /\ ~r.raised ->
                    /\ answer' = [got EXCEPT !.pc = "build"]
                    /\ selected' = Select(r.value, a.similarity_threshold, a.top_n)
                    /\ pos' = 1
                    /\ context_pairs' = <<>>
                    /\ references' = <<>>
                    /\ remaining_chars' = max_context_chars
                    /\ bpc' = "loop"
                    /\ UNCHANGED max_context_chars
    /\ UNCHANGED <<storeVars, bucketVars, retryVars, gatewayVars, limitVars, selection, sanitized>>

\* The retry delay of the retrieval call passes.
RetrievalSleep ==
    /\ answer.pc = "retrieval"
    /\ answer.call.pc = "sleep"
    /\ answer' = [answer EXCEPT !.call = AfterSleep(@)]
    /\ UNCHANGED <<storeVars, bucketVars, builderVars, retryVars, gatewayVars, limitVars,
                   selection, sanitized>>

\* "answer = await llm_client.chat(...)" once the context is built, then
\* "return RAGAnswerResponse(answer=answer, references=references)".
Chat(outcome) ==
    /\ answer.pc = "build"
    /\ bpc = "done"
    /\ LET r == chat(outcome)
       IN  answer' = [answer EXCEPT !.chat_calls = @ + 1,
                                    !.completion = outcome,
                                    !.result = r,
                                    !.pc = IF r.raised THEN "raised" ELSE "done"]
    /\ UNCHANGED <<storeVars, bucketVars, builderVars, retryVars, gatewayVars, limitVars,
                   selection, sanitized>>

NextAnswer ==
    \/ \E o \in RetrievalOutcomes : RetrievalAttempt(o[1], o[2])
    \/ RetrievalSleep
    \/ LoopBreak
    \/ LoopSkip
    \/ LoopInclude
    \/ LoopEnd
    \/ \E o \in CompletionOutcomes : Chat(o)

SpecAnswer == InitAnswer /\ [][NextAnswer]_vars

\* retrieval's _request returned a response carrying a JSON envelope whose
\* code is not zero.
EnvelopeError ==
    /\ answer.response.kind = "response"
    /\ answer.body.is_json
    /\ EnvelopeCode(answer.body) # 0

\* The category the table assigns to an envelope code, as an HTTP status:
\* bad request, unauthorized, forbidden, not found, conflict, and upstream
\* failure for 500 and for every other code.
Category(code) ==
    IF code \in {1001, 1002, 400} THEN 400
    ELSE IF code = 401 THEN 401
    ELSE IF code = 403 THEN 403
    ELSE IF code = 404 THEN 404
    ELSE IF code = 101 THEN 409
    ELSE 502

\* C11: an envelope with a non-zero code makes the retrieval raise the
\* HTTPException of the code's category, upstream failure for a code outside
\* the table; code 404 surfaces as not found.
C11_EnvelopeCodeCategorized ==
    EnvelopeError =>
        /\ answer.pc = "raised"
        /\ answer.result.raised
        /\ answer.result.exc.kind = "HTTPException"
        /\ answer.result.exc.status_code = Category(EnvelopeCode(answer.body))
        /\ EnvelopeCode(answer.body) = 404 => answer.result.exc.status_code = 404
        /\ answer.chat_calls = 0

\* A retrieval envelope with code 404 surfaced as not found.
C11_Witness ==
    /\ EnvelopeError
    /\ EnvelopeCode(answer.body) = 404
    /\ answer.pc = "raised"
    /\ answer.result.exc.status_code = 404

\* C12: a response with a non-zero envelope code or a 4xx status makes the
\* call raise a categorical HTTPException carrying the upstream's message,
\* and is never handed to the caller as a payload.
C12_ApplicationErrorsAreRaised ==
    (/\ answer.response.kind = "response"
     /\ \/ EnvelopeError
        \/ answer.response.status_code \in 400..499)
        => /\ answer.pc = "raised"
           /\ answer.result.exc.kind = "HTTPException"
           /\ (answer.body.is_json /\ answer.body.message # <<>>)
                  => answer.result.exc.detail = answer.body.message[1]

\* The completion's first choice carries no text: None, empty or blank.
NoText(completion) ==
    \/ completion.choices = <<>>
    \/ completion.choices[1] = <<>>
    \/ \A k \in 1..Len(completion.choices[1][1]) : completion.choices[1][1][k] = " "

\* C13: a completion with zero choices, or whose first choice is missing,
\* empty or blank, makes rag_answer raise a 502 after that one call of the
\* backend; an answer that is returned holds a character that is not blank.
C13_EmptyCompletionIsUpstreamFailure ==
    /\ (answer.chat_calls > 0 /\ answer.completion.kind = "completion"
            /\ NoText(answer.completion))
           => /\ answer.pc = "raised"
              /\ answer.result.exc.kind = "HTTPException"
              /\ answer.result.exc.status_code = 502
              /\ answer.chat_calls = 1
    /\ answer.pc = "done"
           => /\ ~answer.result.raised
              /\ \E k \in 1..Len(answer.result.value) : answer.result.value[k] # " "

\* The backend answered with a blank message and the request failed with 502.
C13_Witness ==
    /\ answer.chat_calls = 1
    /\ answer.completion.kind = "completion"
    /\ answer.completion.choices # <<>>
    /\ answer.completion.choices[1] # <<>>
    /\ answer.completion.choices[1][1] # <<>>
    /\ NoText(answer.completion)
    /\ answer.pc = "raised"
    /\ answer.result.exc.status_code = 502

\* --------------- specification: a tool invocation or a rag_answer request

\* Either the gateway serves tool invocations or the API serves one
\* rag_answer request.
InitCalls ==
    \/ InitGateway
    \/ InitAnswer

NextCalls ==
    \/ answer.pc = "idle" /\ Next
    \/ answer.pc # "idle" /\ NextAnswer

SpecCalls == InitCalls /\ [][NextCalls]_vars

\* How often x occurs in the sequence s.
Count(s, x) == Cardinality({k \in 1..Len(s) : s[k] = x})

\* C15: an invocation starts each of its logical upstream calls once (the
\* direct fetch and the listing are the two calls of get_glossary) and sends
\* at most retry_attempts requests for each; a rag_answer request makes one
\* retrieval call of at most its retry_attempts requests and calls the
\* completion backend at most once; a failed request makes no further call.
C15_RetriesOnlyInsideHttpCaller ==
    /\ \A i \in Tasks :
           /\ \A stage \in {"list", "direct", "listing", "search"} :
                  Count(inv[i].calls, stage) <= 1
           /\ Len(inv[i].calls) <= (IF inv[i].tool = "get_glossary" THEN 2 ELSE 1)
           /\ \A r \in GatewayRequests :
                  Count(inv[i].sent, r)
                      <= retry_attempts * Cardinality({k \in 1..Len(inv[i].calls) :
                                              RequestOf(inv[i].calls[k]) = r})
           /\ Len(inv[i].sent) <= retry_attempts * Len(inv[i].calls)
    /\ answer.retrieval_calls <= 1
    /\ answer.requests <= answer.call.retry_attempts * answer.retrieval_calls
    /\ answer.chat_calls <= 1
    /\ (answer.pc = "raised" /\ answer.response.kind = "None") => answer.chat_calls = 0

\* A get_glossary invocation fell back after one direct request and its
\* listing call failed after three requests; nothing was sent after that.
C15_Witness ==
    /\ inv["t1"].pc = "raised"
    /\ inv["t1"].calls = <<"direct", "listing">>
    /\ Len(inv["t1"].sent) = 4
    /\ inv["t1"].call.attempt_number = 3

\* ------------------------------- specification: the per-tool rate limiters

MaxCalls == 3

\* settings.tool_rate_limits: none, one tool's capacity, or an entry for a
\* name that is no tool.
OverrideChoices ==
    {NoOverrides, [tool \in {"rag_answer"} |-> 1]}
        \cup {[tool \in {name} |-> c] :
                 name \in {"search_terms", "list_glossaries"}, c \in 1..(MaxCapacity + 1)}

\* MCPServerApplication.__init__: the limiters are built from the settings.
InitLimits ==
    /\ IdleStore
    /\ IdleBuilder
    /\ IdleRetry
    /\ IdlePipeline
    /\ IdleSelect
    /\ IdleTerms
    /\ now = 0
    /\ bucket = TokenBucket(1, 1, 0)
    /\ burst = FreshBurst(FALSE)
    /\ lastCall = 0
    /\ \E capacity \in 1..MaxCapacity, interval \in 1..MaxInterval,
          overrides \in OverrideChoices :
           settings = MCPServerSettings(capacity, interval, overrides)
    /\ limiters = build_rate_limiters(settings.tool_rate_limits,
                                      settings.rate_limit_capacity,
                                      settings.rate_limit_interval_seconds, 0)
    /\ locks = [tool \in ALLOWED_TOOLS |-> None]
    /\ inv = [i \in Tasks |-> IdleInvocation]
    /\ enforced = NoneEnforced

CallsEnforced ==
    LET total[S \in SUBSET ALLOWED_TOOLS] ==
            IF S = {} THEN 0
            ELSE LET tool == CHOOSE x \in S : TRUE
                 IN  enforced[tool].admitted + enforced[tool].denied + total[S \ {tool}]
    IN  total[ALLOWED_TOOLS]

\* _enforce_rate_limit(tool_name): the tool's limiter runs consume(), which
\* is one critical section of that bucket.
EnforceRateLimit(tool_name) ==
    /\ CallsEnforced < MaxCalls
    /\ LET r == consume(limiters[tool_name], 1, now)
       IN  /\ limiters' = [limiters EXCEPT ![tool_name] = r.bucket]
           /\ enforced' = [enforced EXCEPT ![tool_name] =
                    IF enforce_rate_limit(r.ok).ok
                    THEN [@ EXCEPT !.admitted = @ + 1]
                    ELSE [@ EXCEPT !.denied = @ + 1]]
    /\ UNCHANGED <<storeVars, locks, inv, settings, bucketVars, builderVars, retryVars,
                   answer, selection, sanitized>>

NextLimits ==
    \/ \E tool_name \in ALLOWED_TOOLS : EnforceRateLimit(tool_name)
    \/ GatewayTick

SpecLimits == InitLimits /\ [][NextLimits]_vars

\* The capacity the settings give a tool.
CapacityOf(tool) ==
    IF tool \in DOMAIN settings.tool_rate_limits
    THEN settings.tool_rate_limits[tool]
    ELSE settings.rate_limit_capacity

\* Every bucket has its tool's capacity and the shared interval; a tool that
\* was never called has its bucket as created; a tool was denied only after
\* it was itself admitted as often as its capacity.
BucketsIndependent ==
    \A tool \in ALLOWED_TOOLS :
        /\ limiters[tool].capacity = CapacityOf(tool)
        /\ limiters[tool].refill_interval = settings.rate_limit_interval_seconds
        /\ (enforced[tool].admitted = 0 /\ enforced[tool].denied = 0)
               => limiters[tool]
                      = TokenBucket(CapacityOf(tool), settings.rate_limit_interval_seconds, 0)
        /\ enforced[tool].denied > 0 => enforced[tool].admitted >= CapacityOf(tool)

\* A step changes the bucket of the one tool whose rate limit it enforced.
OtherBucketsUnchanged ==
    \A tool \in ALLOWED_TOOLS :
        enforced'[tool] = enforced[tool] => limiters'[tool] = limiters[tool]

\* C16: a consume on one tool's bucket leaves the token count and the refill
\* timestamp of every other bucket unchanged, a tool is denied only when its
\* own bucket is exhausted, and an override sets one tool's capacity while
\* every bucket has the shared refill interval.
C16_BucketsIndependentPerTool ==
    []BucketsIndependent /\ [][OtherBucketsUnchanged]_vars

\* search_terms, whose capacity is overridden, was exhausted and denied, and
\* get_glossary was still admitted with the default capacity.
C16_Witness ==
    /\ "search_terms" \in DOMAIN settings.tool_rate_limits
    /\ limiters["search_terms"].capacity # limiters["get_glossary"].capacity
    /\ enforced["search_terms"].denied = 1
    /\ enforced["get_glossary"].admitted = 1
    /\ limiters["list_glossaries"]
           = TokenBucket(settings.rate_limit_capacity,
                         settings.rate_limit_interval_seconds, 0)

\* ------------------------------ specification: the selection step, run twice

\* A chunk's similarity: absent, or a number of steps.
Similarities == {<<>>, <<0>>, <<1>>, <<2>>}
Thresholds == 0..2

\* Retrieved chunk lists of at most MaxChunks chunks; a chunk's id is its
\* position in the list.
RetrievedLists ==
    UNION {[1..n -> Similarities] : n \in 0..MaxChunks}

AsRetrieved(sims) ==
    [k \in 1..Len(sims) |-> [id |-> k, similarity |-> sims[k], content |-> <<"a">>]]

InitSelect ==
    /\ IdleStore
    /\ IdleBucket
    /\ IdleBuilder
    /\ IdleRetry
    /\ IdleGateway
    /\ IdleLimits
    /\ IdlePipeline
    /\ IdleTerms
    /\ \E sims \in RetrievedLists, t \in Thresholds, top_n \in 1..MaxTopN :
           selection = [IdleSelection EXCEPT !.pc = "start",
                                             !.chunks = AsRetrieved(sims),
                                             !.similarity_threshold = t,
                                             !.top_n = top_n]

\* The selection step runs on the retrieved chunks.
SelectOnce ==
    /\ selection.pc = "start"
    /\ selection' = [selection EXCEPT
                        !.pc = "once",
                        !.once = Select(selection.chunks, selection.similarity_threshold,
                                        selection.top_n)]
    /\ UNCHANGED <<storeVars, bucketVars, builderVars, retryVars, gatewayVars, limitVars,
                   answer, sanitized>>

\* The same step runs on its own output.
SelectAgain ==
    /\ selection.pc = "once"
    /\ selection' = [selection EXCEPT
                        !.pc = "twice",
                        !.twice = Select(selection.once, selection.similarity_threshold,
                                         selection.top_n)]
    /\ UNCHANGED <<storeVars, bucketVars, builderVars, retryVars, gatewayVars, limitVars,
                   answer, sanitized>>

NextSelect ==
    \/ SelectOnce
    \/ SelectAgain

SpecSelect == InitSelect /\ [][NextSelect]_vars

\* C18: filter by threshold, sort by similarity descending and take top_n,
\* applied to its own output, gives the identical sequence.
C18_SelectionIsIdempotent ==
    selection.pc = "twice" => selection.twice = selection.once

\* Of three retrieved chunks one was dropped and two of equal similarity were
\* kept in their order; the second run gave the same two chunks.
C18_Witness ==
    /\ selection.pc = "twice"
    /\ Len(selection.chunks) = 3
    /\ Len(selection.once) = 2
    /\ Similarity(selection.once[1]) = Similarity(selection.once[2])
    /\ selection.once[1].id < selection.once[2].id
    /\ selection.twice = selection.once

\* --------------------------------------- specification: sanitizing a term list

MaxTermCount == 3

\* The terms a caller may pass: empty, blank, padded, plain, with an inner
\* space.
TermValues ==
    {<<>>, <<" ">>, <<" ", "f", "o", "o", " ">>, <<"b", "a", "r">>, <<"a", " ", "b">>}

TermLists ==
    UNION {[1..n -> TermValues] : n \in 0..MaxTermCount}

InitTerms ==
    /\ IdleStore
    /\ IdleBucket
    /\ IdleBuilder
    /\ IdleRetry
    /\ IdleGateway
    /\ IdleLimits
    /\ IdlePipeline
    /\ IdleSelect
    /\ \E terms \in TermLists :
           sanitized = [IdleSanitized EXCEPT !.pc = "start", !.terms = terms]

\* sanitize_terms(terms)
Sanitize ==
    /\ sanitized.pc = "start"
    /\ sanitized' = [sanitized EXCEPT !.pc = "once",
                                      !.once = sanitize_terms(sanitized.terms)]
    /\ UNCHANGED <<storeVars, bucketVars, builderVars, retryVars, gatewayVars, limitVars,
                   answer, selection>>

\* sanitize_terms applied to its own result.
SanitizeAgain ==
    /\ sanitized.pc = "once"
    /\ sanitized' = [sanitized EXCEPT !.pc = "twice",
                                      !.twice = sanitize_terms(sanitized.once)]
    /\ UNCHANGED <<storeVars, bucketVars, builderVars, retryVars, gatewayVars, limitVars,
                   answer, selection>>

\* _handle_retrieve_definitions called with the terms: the question it
\* passes to search_glossary, or the ValueError it raises.
Prepare ==
    /\ sanitized.pc = "twice"
    /\ LET v == ValidateRetrieveDefinitions(
                    [dataset_id |-> GoodDatasetId, terms |-> sanitized.terms,
                     top_k |-> <<>>])
       IN  sanitized' = [sanitized EXCEPT
                            !.pc = "prepared",
                            !.question = IF v.ok THEN v.value.question ELSE @,
                            !.error = v.error]
    /\ UNCHANGED <<storeVars, bucketVars, builderVars, retryVars, gatewayVars, limitVars,
                   answer, selection>>

NextTerms ==
    \/ Sanitize
    \/ SanitizeAgain
    \/ Prepare

SpecTerms == InitTerms /\ [][NextTerms]_vars

\* The positions of a term's characters that are not blank.
Inked(term) == {k \in 1..Len(term) : term[k] # " "}

\* A term without its leading and trailing blanks.
Trimmed(term) ==
    IF Inked(term) = {} THEN <<>>
    ELSE LET first == CHOOSE k \in Inked(term) : \A j \in Inked(term) : k <= j
             last == CHOOSE k \in Inked(term) : \A j \in Inked(term) : k >= j
         IN  SubSeq(term, first, last)

\* The trimmed forms of the terms that are not blank, in their order.
TrimmedNonEmpty(terms) ==
    LET kept == SelectSeq(terms, LAMBDA term : Inked(term) # {})
    IN  [k \in 1..Len(kept) |-> Trimmed(kept[k])]

\* C20: sanitize_terms gives the trimmed forms of the terms that are not
\* empty after trimming, in their order ([" foo ", "", "bar"] gives
\* ["foo", "bar"]); sanitizing the result again changes nothing; the question
\* retrieve_definitions passes upstream lists the sanitized terms and no other.
C20_SanitizeTerms ==
    /\ sanitized.pc \in {"once", "twice", "prepared"}
           => /\ sanitized.once = TrimmedNonEmpty(sanitized.terms)
              /\ sanitized.terms = << <<" ", "f", "o", "o", " ">>, <<>>, <<"b", "a", "r">> >>
                     => sanitized.once = << <<"f", "o", "o">>, <<"b", "a", "r">> >>
    /\ sanitized.pc \in {"twice", "prepared"} => sanitized.twice = sanitized.once
    /\ sanitized.pc = "prepared"
           => /\ sanitized.error = "" => sanitized.question.bullets = sanitized.once
              /\ sanitized.error # "" => sanitized.once = <<>>

\* [" foo ", "", "bar"] was sanitized and the question lists foo and bar.
C20_Witness ==
    /\ sanitized.pc = "prepared"
    /\ sanitized.terms = << <<" ", "f", "o", "o", " ">>, <<>>, <<"b", "a", "r">> >>
    /\ sanitized.twice = << <<"f", "o", "o">>, <<"b", "a", "r">> >>
    /\ sanitized.question.bullets = << <<"f", "o", "o">>, <<"b", "a", "r">> >>

\* ------------------------------------------- the gateway's dataset-id check

\* C19 (as amended): a dataset id is trimmed first; an id that is then empty
\* or holds a space or "!" is rejected and its invocation fails before a
\* correlation id is generated or any upstream request is sent; an id that
\* passes is used in its trimmed form; abc-123_DEF is accepted.
C19_TrimmedDatasetIdWithSpaceOrBangRejected ==
    /\ validate_dataset_id(<<"a", "b", "c", "-", "1", "2", "3", "_", "D", "E", "F">>).ok
    /\ \A i \in Tasks :
           (Started(i) /\ inv[i].tool # "list_glossaries")
               => LET id == Trimmed(inv[i].args.dataset_id)
                  IN  /\ (id = <<>> \/ \E k \in 1..Len(id) : id[k] \in {" ", "!"})
                             => /\ inv[i].pc = "raised"
                                /\ inv[i].request_id = ""
                                /\ inv[i].sent = <<>>
                      /\ inv[i].request_id # "" => inv[i].validated.dataset_id = id

\* One invocation was rejected for an id ending in "!", another for an id
\* with an inner space was rejected too.
C19_Witness ==
    /\ inv["t1"].pc = "raised"
    /\ inv["t1"].args.dataset_id = <<"a", "!">>
    /\ inv["t1"].error = "dataset_id contains unsupported characters"
    /\ inv["t2"].pc = "raised"
    /\ inv["t2"].args.dataset_id = <<"a", " ", "b">>
    /\ inv["t2"].sent = <<>>

\* ------------------------- specification: POST /rag/answer from the request on

\* RAGAnswerRequest: "top_n: int = Field(default=6, ge=1, le=1024)" and
\* "max_context_chars: int = Field(default=6000, ge=500)".
top_n_le == 1024
max_context_chars_ge == 500

\* Whether pydantic accepts the request body's top_n and max_context_chars.
RAGAnswerRequest(top_n, chars) ==
    /\ top_n >= 1
    /\ top_n <= top_n_le
    /\ chars >= max_context_chars_ge

\* The text of 3000 characters "A", and the chunk lists the retrieval of a
\* request may return.  Similarities are counted in tenths: 9 is 0.9.
LongText == SubSeq([k \in 1..3000 |-> "A"], 1, 3000)

ExampleChunks ==
    <<[id |-> 1, similarity |-> <<9>>, content |-> LongText],
      [id |-> 2, similarity |-> <<1>>, content |-> <<"B">>]>>

RequestChunkLists ==
    {ExampleChunks,
     <<[id |-> 1, similarity |-> <<9>>, content |-> <<" ">>],
       [id |-> 2, similarity |-> <<5>>, content |-> LongText],
       [id |-> 3, similarity |-> <<3>>, content |-> <<"B">>]>>,
     <<[id |-> 1, similarity |-> <<>>, content |-> <<"B">>],
       [id |-> 2, similarity |-> <<5>>, content |-> <<"B", "C">>]>>}

RequestOutcomes ==
    {<<RequestError, NotJson>>, <<Response(500), NotJson>>,
     <<Response(200), Envelope(<<404>>, <<>>, <<>>)>>}
        \cup {<<Response(200), Envelope(<<0>>, <<>>, cs)>> : cs \in RequestChunkLists}

\* The request bodies: the budgets around the schema's minimum and the
\* example's 10, the top_n values around the schema's range.
RequestBudgets == {10, max_context_chars_ge - 1, max_context_chars_ge, max_context_chars_ge + 1}
RequestTopNs == (0..MaxTopN) \cup {top_n_le + 1}

\* settings.rag_answer_similarity_threshold = 0.2
rag_answer_similarity_threshold == 2

InitRequest ==
    /\ IdleStore
    /\ IdleBucket
    /\ IdleRetry
    /\ IdleGateway
    /\ IdleLimits
    /\ IdleSelect
    /\ IdleTerms
    /\ selected = <<>>
    /\ max_context_chars \in RequestBudgets
    /\ remaining_chars = max_context_chars
    /\ pos = 1
    /\ context_pairs = <<>>
    /\ references = <<>>
    /\ bpc = "done"
    /\ \E n \in 1..MaxAttempts, top_n \in RequestTopNs :
           answer = [IdleAnswer EXCEPT !.pc = "request",
                                       !.similarity_threshold = rag_answer_similarity_threshold,
                                       !.top_n = top_n,
                                       !.call = [NewCall("RAGFlowClient", n, 0) EXCEPT !.pc = "idle"]]

\* FastAPI builds payload: RAGAnswerRequest from the body before rag_answer
\* runs; a body the model rejects is answered 422 and rag_answer never runs.
ValidateRequest ==
    /\ answer.pc = "request"
    /\ answer' =
           IF RAGAnswerRequest(answer.top_n, max_context_chars)
           THEN [answer EXCEPT !.pc = "retrieval", !.call.pc = "attempt",
                               !.retrieval_calls = 1]
           ELSE [answer EXCEPT !.pc = "rejected",
                               !.result = RaisedExc(HTTPException(422, "RequestValidationError"))]
    /\ UNCHANGED <<storeVars, bucketVars, builderVars, retryVars, gatewayVars, limitVars,
                   selection, sanitized>>

NextRequest ==
    \/ ValidateRequest
    \/ \E o \in RequestOutcomes : RetrievalAttempt(o[1], o[2])
    \/ RetrievalSleep
    \/ LoopBreak
    \/ LoopSkip
    \/ LoopInclude
    \/ LoopEnd
    \/ \E o \in CompletionOutcomes : Chat(o)

SpecRequest == InitRequest /\ [][NextRequest]_vars

\* The retrieval of the request returned the example's two chunks and the
\* builder loop has ended.
ExampleBuilt ==
    /\ answer.pc \in {"build", "done", "raised"}
    /\ answer.body.is_json
    /\ answer.body.chunks = ExampleChunks
    /\ bpc = "done"

\* C21: a request carrying max_context_chars=10 is answered by rag_answer
\* (it is not turned away before the retrieval); when its retrieval returns
\* [{similarity 0.9, "A"x3000}, {similarity 0.1, "B"}] with threshold 0.2,
\* only chunk A is selected, its text is cut to 10 characters, the builder
\* stops, and a response carries exactly one reference, with chunk_index 1.
C21_EndToEndBudgetOfTen ==
    (max_context_chars = 10 /\ answer.top_n \in 1..top_n_le /\ answer.pc # "request")
        => /\ answer.pc # "rejected"
           /\ ExampleBuilt
                  => /\ Len(selected) = 1
                     /\ selected[1].id = 1
                     /\ context_pairs = << <<1, SubSeq(LongText, 1, 10)>> >>
                     /\ remaining_chars = 0
                     /\ Len(references) = 1
                     /\ references[1].chunk_index = 1

\* ------------------------------------- the context builder: the truncated chunk

\* The budget left when the pair numbered j was built.
BudgetBefore(j) ==
    max_context_chars - TotalLen(SubSeq(context_pairs, 1, j - 1))

\* The context pairs built from the chunk at position p of selected.
PairsOf(p) ==
    {j \in 1..Len(references) : references[j].chunk_id = selected[p].id}

\* C24: a chunk whose trimmed content is longer than the remaining budget
\* R > 0 is included cut to exactly its first R characters, the remaining
\* budget is then 0, and it is the last context chunk: the loop goes no
\* further in the list.  A chunk that fits is included whole.
C24_TruncatedChunkIsLast ==
    \A p \in 1..Len(selected) :
        LET content == ChunkContent(selected[p])
        IN  /\ (p < pos /\ content # <<>>) => Cardinality(PairsOf(p)) = 1
            /\ \A j \in PairsOf(p) :
                   LET R == BudgetBefore(j)
                   IN  /\ R > 0
                       /\ Len(content) > R
                              => /\ context_pairs[j][2] = SubSeq(content, 1, R)
                                 /\ j = Len(context_pairs)
                                 /\ remaining_chars = 0
                                 /\ pos = p + 1
                       /\ Len(content) <= R => context_pairs[j][2] = content

\* The second chunk was cut to the two characters left of the budget, and
\* the third chunk, which has text, was left out.
C24_Witness ==
    /\ bpc = "done"
    /\ Len(selected) = 3
    /\ Len(context_pairs) = 2
    /\ references[2].chunk_id = 2
    /\ BudgetBefore(2) = 2
    /\ Len(ChunkContent(selected[2])) > 2
    /\ Len(context_pairs[2][2]) = 2
    /\ ChunkContent(selected[3]) # <<>>
    /\ remaining_chars = 0

\* ------------------------------------------ rag_answer: the order of the chunks

\* The retrieval of the request returned chunks and the selection step ran.
ChunksSelected ==
    /\ answer.pc \in {"build", "done"}
    /\ answer.body.is_json

\* The position of the chunk with this id in a chunk list, 0 when absent.
PositionOf(chunks, id) ==
    IF \E k \in 1..Len(chunks) : chunks[k].id = id
    THEN CHOOSE k \in 1..Len(chunks) : chunks[k].id = id
    ELSE 0

\* C27: the selected chunks are in descending order of similarity (a missing
\* similarity counting as 0.0); of two selected chunks of equal similarity
\* the one that came first in the retrieval response comes first, and when
\* both are cited it has the smaller citation index.
C27_StableDescendingOrder ==
    ChunksSelected =>
        LET retrieved == answer.body.chunks
        IN  /\ \A i, j \in 1..Len(selected) :
                   i < j => /\ Similarity(selected[i]) >= Similarity(selected[j])
                            /\ Similarity(selected[i]) = Similarity(selected[j])
                                   => PositionOf(retrieved, selected[i].id)
                                          < PositionOf(retrieved, selected[j].id)
            /\ \A a, b \in 1..Len(references) :
                   LET ra == PositionOf(retrieved, references[a].chunk_id)
                       rb == PositionOf(retrieved, references[b].chunk_id)
                   IN  (Similarity(retrieved[ra]) = Similarity(retrieved[rb]) /\ ra < rb)
                           => references[a].chunk_index < references[b].chunk_index

\* A chunk without a similarity and a later chunk of similarity 0 were both
\* selected behind a more similar chunk and cited in their retrieval order.
C27_Witness ==
    /\ ChunksSelected
    /\ answer.pc = "done"
    /\ Len(answer.body.chunks) = 3
    /\ answer.body.chunks[1].similarity = <<>>
    /\ answer.body.chunks[3].similarity = <<0>>
    /\ Len(references) = 3
    /\ references[2].chunk_id = 1
    /\ references[3].chunk_id = 3

\* ------------------------------------------- rag_answer: the retries ran out

\* Every permitted attempt of the retrieval call ended in a transport
\* failure or a 5xx response: the retry loop gave up at the last one.
AttemptsExhausted ==
    /\ answer.pc = "raised"
    /\ answer.call.pc = "raised"
    /\ answer.call.attempt_number = answer.call.retry_attempts
    /\ answer.call.result.kind \in {"RequestError", "HTTPStatusError"}

\* C26: when every permitted attempt of an upstream call failed in transport
\* or with a 5xx response, the error that reaches the client's caller is the
\* categorized upstream failure (HTTPException 502, as for an unknown
\* envelope code), not the transport exception.
C26_ExhaustedRetriesAreUpstreamFailure ==
    AttemptsExhausted
        => /\ answer.result.raised
           /\ answer.result.exc.kind = "HTTPException"
           /\ answer.result.exc.status_code = status_map(0)

\* ------------------------------------- specification: ensure_dataset callers

\* The names ensure_dataset is called with, and what RAGFlow holds at the
\* start: nothing, or a dataset without a name, another dataset and one
\* whose name differs from the names asked for in case only.
EnsureNames == {<<"F", "i">>, <<"f", "i">>}

InitialDatasets ==
    {<<>>,
     <<Dataset(1, << <<"x">> >>)>>,
     <<Dataset(1, <<>>), Dataset(2, << <<"x">> >>), Dataset(3, << <<"F", "I">> >>)>>}

\* GET /api/v1/datasets?name=...: the service lists all its datasets, or
\* those whose name is the name asked for.
ListingOf(datasets, name, filtered) ==
    IF filtered
    THEN SelectSeq(datasets, LAMBDA d : Lower(ItemName(d)) = Lower(name))
    ELSE datasets

\* What the service answers to one attempt of the listing.
ListOutcomes ==
    {<<RequestError, "none">>, <<Response(500), "none">>,
     <<Response(200), "error">>, <<Response(200), "all">>, <<Response(200), "named">>}

\* What the service does with one attempt of POST /api/v1/datasets: whether
\* it accepts the request and creates the dataset, and what the client gets.
\* A transport failure or a 5xx may follow an accepted request as well as a
\* refused one; code 101 refuses it.
CreateOutcomes ==
    {<<Response(200), TRUE>>, <<Response(200), FALSE>>}
        \cup {<<o, accepted>> : o \in {RequestError, Response(500)}, accepted \in BOOLEAN}

InitDatasets ==
    /\ IdleBucket
    /\ IdleBuilder
    /\ IdleRetry
    /\ IdleGateway
    /\ IdleLimits
    /\ IdlePipeline
    /\ IdleSelect
    /\ IdleTerms
    /\ lookup = IdleLookup
    /\ \E ds \in InitialDatasets : upstream = [initial |-> ds, datasets |-> ds]
    /\ \E n \in 1..MaxAttempts :
           ensure = [i \in Tasks |-> [IdleEnsure EXCEPT !.call.retry_attempts = n]]

otherVars == <<bucketVars, builderVars, retryVars, gatewayVars, limitVars,
               answer, selection, sanitized, lookup>>

\* "await ragflow_client.ensure_dataset(name=payload.name, ...)" begins with
\* "listings = await self.list_datasets(name=name)".
EnsureDataset(i, name) ==
    /\ ensure[i].pc = "idle"
    /\ ensure' = [ensure EXCEPT ![i] =
           [@ EXCEPT !.pc = "list", !.name = name, !.calls = <<"list_datasets">>,
                     !.call = NewCall("RAGFlowClient", @.retry_attempts, 0)]]
    /\ UNCHANGED <<upstream, otherVars>>

\* One attempt of the listing is sent and answered; when _request returns,
\* _request_json and the loop over the listing run.
ListAttempt(i, outcome, kind) ==
    /\ ensure[i].pc = "list"
    /\ ensure[i].call.pc = "attempt"
    /\ LET e == ensure[i]
           c == AttemptOf(e.call, outcome)
           body == IF kind = "none" THEN NotJson
                   ELSE IF kind = "error" THEN DataEnvelope(<<401>>, <<>>, <<>>)
                   ELSE DataEnvelope(<<0>>, <<>>,
                                     ListingOf(upstream.datasets, e.name, kind = "named"))
           r == request_json(outcome, body)
           found == ensure_dataset_scan(body.data, e.name)
       IN  ensure' = [ensure EXCEPT ![i] =
               CASE c.pc = "sleep" -> [e EXCEPT !.call = c]
                 [] c.pc = "raised" ->
                        [e EXCEPT !.call = c, !.pc = "raised", !.result = Escaped(c.result)]
                 [] c.pc = "returned" /\ r.raised ->
                        [e EXCEPT !.call = c, !.pc = "raised", !.result = r]
                 [] c.pc = "returned" /\ ~r.raised /\ found # <<>> ->
                        [e EXCEPT !.call = c, !.listing = body.data, !.pc = "returned",
                                  !.result = Returned(found)]
                 [] c.pc = "returned" /\ ~r.raised /\ found = <<>> ->
                        [e EXCEPT !.listing = body.data, !.pc = "create",
                                  !.calls = Append(@, "POST /datasets"),
                                  !.call = NewCall("RAGFlowClient", c.retry_attempts, 0)]]
    /\ UNCHANGED <<upstream, otherVars>>

\* One attempt of the create request is sent; the service accepts it or not,
\* and the client gets a response or a failure.
CreateAttempt(i, outcome, accepted) ==
    /\ ensure[i].pc = "create"
    /\ ensure[i].call.pc = "attempt"
    /\ LET e == ensure[i]
           c == AttemptOf(e.call, outcome)
           created == Dataset(Len(upstream.datasets) + 1, <<e.name>>)
           body == IF outcome.kind # "response" \/ outcome.status_code >= 500 THEN NotJson
                   ELSE IF accepted THEN DataEnvelope(<<0>>, <<>>, <<created>>)
                   ELSE DataEnvelope(<<101>>, <<>>, <<>>)
           r == request_json(outcome, body)
       IN  /\ upstream' = IF accepted
                          THEN [upstream EXCEPT !.datasets = Append(@, created)]
                          ELSE upstream
           /\ ensure' = [ensure EXCEPT ![i] =
                  CASE c.pc = "sleep" -> [e EXCEPT !.call = c]
                    [] c.pc = "raised" ->
                           [e EXCEPT !.call = c, !.pc = "raised", !.result = Escaped(c.result)]
                    [] c.pc = "returned" /\ r.raised ->
                           [e EXCEPT !.call = c, !.pc = "raised", !.result = r]
                    [] c.pc = "returned" /\ ~r.raised ->
                           [e EXCEPT !.call = c, !.pc = "returned",
                                     !.result = Returned(body.data)]]
    /\ UNCHANGED otherVars

\* The retry delay of a listing or of a create request passes.
EnsureSleep(i) ==
    /\ ensure[i].pc \in {"list", "create"}
    /\ ensure[i].call.pc = "sleep"
    /\ ensure' = [ensure EXCEPT ![i].call = AfterSleep(@)]
    /\ UNCHANGED <<upstream, otherVars>>

NextDatasets ==
    \/ \E i \in Tasks, name \in EnsureNames : EnsureDataset(i, name)
    \/ \E i \in Tasks : \E o \in ListOutcomes : ListAttempt(i, o[1], o[2])
    \/ \E i \in Tasks : \E o \in CreateOutcomes : CreateAttempt(i, o[1], o[2])
    \/ \E i \in Tasks : EnsureSleep(i)

SpecDatasets == InitDatasets /\ [][NextDatasets]_vars

\* The items of a listing whose name is this name but for the case of its
\* letters.
SameName(a, b) ==
    /\ Len(a) = Len(b)
    /\ \A k \in 1..Len(a) :
           \/ a[k] = b[k]
           \/ {a[k], b[k]} \in {{"F", "f"}, {"I", "i"}}

Matching(listing, name) ==
    {k \in 1..Len(listing) : listing[k].name # <<>> /\ SameName(listing[k].name[1], name)}

\* C22: ensure_dataset lists first; when the listing holds a dataset of the
\* requested name, case ignored, it returns that dataset (the first such)
\* and makes no create request; only when the listing holds none does it
\* make one create call, exactly one, and return the dataset created.
C22_ListThenCreateIfAbsent ==
    \A i \in Tasks :
        LET e == ensure[i]
            listed == e.pc \in {"create", "returned"}
            matches == Matching(e.listing, e.name)
        IN  /\ e.calls \in {<<>>, <<"list_datasets">>, <<"list_datasets", "POST /datasets">>}
            /\ e.pc \in {"list", "create", "returned", "raised"} => e.calls # <<>>
            /\ (listed /\ matches # {})
                   => /\ e.calls = <<"list_datasets">>
                      /\ e.pc = "returned"
                      /\ e.result.value
                             = <<e.listing[CHOOSE k \in matches : \A j \in matches : k <= j]>>
            /\ (listed /\ matches = {})
                   => /\ e.calls = <<"list_datasets", "POST /datasets">>
                      /\ e.pc = "returned"
                             => /\ Len(e.result.value) = 1
                                /\ e.result.value[1].name = <<e.name>>
                                /\ e.result.value[1] \notin
                                       {upstream.initial[k] : k \in 1..Len(upstream.initial)}
                                /\ \E k \in 1..Len(upstream.datasets) :
                                       upstream.datasets[k] = e.result.value[1]
            /\ e.pc = "create" => (listed /\ matches = {})

\* One call found no dataset of its name listed, created it at the second
\* attempt of its create request and returned it; the other call then found
\* it listed behind another dataset, under a name in another case, and
\* returned it without a create request.
C22_Witness ==
    \E i, j \in Tasks :
        /\ ensure[j].pc = "returned"
        /\ ensure[j].calls = <<"list_datasets", "POST /datasets">>
        /\ ensure[j].call.attempt_number = 2
        /\ Len(ensure[j].listing) = 1
        /\ Len(upstream.datasets) = 2
        /\ ensure[j].result.value = <<upstream.datasets[2]>>
        /\ ensure[i].pc = "returned"
        /\ ensure[i].calls = <<"list_datasets">>
        /\ ensure[i].name # ensure[j].name
        /\ ensure[i].listing = upstream.datasets
        /\ ensure[i].result.value = <<upstream.datasets[2]>>

\* The datasets the service created under this name, case ignored.
CreatedAs(name) ==
    {k \in (Len(upstream.initial) + 1)..Len(upstream.datasets) :
        SameName(ItemName(upstream.datasets[k]), name)}

\* C30: when the service holds no dataset of a name at the start, then
\* whatever the interleaving of the ensure_dataset calls for that name and
\* whatever the retries of their create requests, the service accepts at
\* most one create request for it.
C30_AtMostOneCreateAccepted ==
    \A name \in EnsureNames :
        Matching(upstream.initial, name) = {} => Cardinality(CreatedAs(name)) <= 1

\* -------------------- specification: get_glossary's scan of the glossary listing

MaxItems == 3

\* The ids a glossary is asked for, and the items a listing may hold.  An
\* item's dataset_id, id and name are optional: <<>> when the key is absent
\* (or null), <<text>> otherwise; "" is the empty string.
LookupIds == {"ab", "cd"}

ListedItems ==
    {[dataset_id |-> <<>>, id |-> <<"ab">>, name |-> <<"first">>],
     [dataset_id |-> <<"ab">>, id |-> <<"cd">>, name |-> <<"second">>],
     [dataset_id |-> <<"">>, id |-> <<"cd">>, name |-> <<"third">>],
     [dataset_id |-> <<"cd">>, id |-> <<"ab">>, name |-> <<"fourth">>],
     [dataset_id |-> <<>>, id |-> <<>>, name |-> <<"fifth">>],
     [dataset_id |-> <<"ab">>, id |-> <<>>, name |-> <<>>]}

Listings ==
    UNION {[1..n -> ListedItems] : n \in 0..MaxItems}

\* "item.get("dataset_id") or item.get("id")": the first of the two that is
\* neither absent nor empty, else what id holds.
identifier(item) ==
    IF item.dataset_id # <<>> /\ item.dataset_id[1] # "" THEN item.dataset_id
    ELSE item.id

\* "for item in listing.get("items", []): ... if identifier == dataset_id:
\* return item", then "return None": <<item>>, or <<>> for None.
fetch_glossary_items_First(items, dataset_id) ==
    IF items = <<>> THEN <<>> ELSE <<Head(items)>>

RECURSIVE fetch_glossary_items(_, _)
fetch_glossary_items(items, dataset_id) ==
    IF items = <<>> THEN <<>>
    ELSE IF identifier(Head(items)) = <<dataset_id>> THEN <<Head(items)>>
    ELSE fetch_glossary_items(Tail(items), dataset_id)

ValueError(message) == [kind |-> "ValueError", status_code |-> 0, detail |-> message]
ValidationError == [kind |-> "ValidationError", status_code |-> 0, detail |-> ""]

\* _handle_get_glossary after fetch_glossary returned data: "if not data:
\* raise ValueError(...)", then GlossarySummary.from_payload(data), whose
\* model needs a dataset_id and a name.
get_glossary_summary(data) ==
    IF data = <<>> THEN RaisedExc(ValueError("Glossary dataset was not found."))
    ELSE LET payload == data[1]
             dataset_id == identifier(payload)
         IN  IF dataset_id = <<>> \/ payload.name = <<>> THEN RaisedExc(ValidationError)
             ELSE Returned([dataset_id |-> dataset_id[1], name |-> payload.name[1]])

InitLookup ==
    /\ IdleBucket
    /\ IdleBuilder
    /\ IdleRetry
    /\ IdleGateway
    /\ IdleLimits
    /\ IdlePipeline
    /\ IdleSelect
    /\ IdleTerms
    /\ upstream = [initial |-> <<>>, datasets |-> <<>>]
    /\ ensure = [i \in Tasks |-> IdleEnsure]
    /\ \E id \in LookupIds, items \in Listings :
           lookup = [IdleLookup EXCEPT !.pc = "listing", !.dataset_id = id, !.items = items]

\* fetch_glossary, after the direct fetch fell back and list_glossaries
\* returned the listing, scans its items.
ScanListing ==
    /\ lookup.pc = "listing"
    /\ lookup' = [lookup EXCEPT !.pc = "scanned",
                                !.data = fetch_glossary_items(lookup.items, lookup.dataset_id)]
    /\ UNCHANGED <<upstream, ensure, bucketVars, builderVars, retryVars, gatewayVars,
                   limitVars, answer, selection, sanitized>>

\* The handler makes its result, or raises, from what fetch_glossary gave.
Summarize ==
    /\ lookup.pc = "scanned"
    /\ lookup' = [lookup EXCEPT !.pc = "done", !.result = get_glossary_summary(lookup.data)]
    /\ UNCHANGED <<upstream, ensure, bucketVars, builderVars, retryVars, gatewayVars,
                   limitVars, answer, selection, sanitized>>

NextLookup ==
    \/ ScanListing
    \/ Summarize

SpecLookup == InitLookup /\ [][NextLookup]_vars

\* The positions of the listed items that carry the id asked for: in
\* dataset_id, or in id when dataset_id is absent or empty.
Carrying(items, id) ==
    {k \in 1..Len(items) :
        \/ items[k].dataset_id = <<id>>
        \/ items[k].dataset_id \in {<<>>, <<"">>} /\ items[k].id = <<id>>}

\* C23: falling back to the listing, get_glossary returns a summary only of
\* a listed item whose identifier is the id asked for; when no listed item
\* carries that id the invocation fails as not found; it never returns
\* another dataset's metadata.
C23_FallbackReturnsOnlyTheMatch ==
    lookup.pc = "done" =>
        LET carrying == Carrying(lookup.items, lookup.dataset_id)
        IN  /\ ~lookup.result.raised
                   => /\ carrying # {}
                      /\ lookup.result.value.dataset_id = lookup.dataset_id
                      /\ \E k \in carrying :
                             lookup.result.value.name = lookup.items[k].name[1]
            /\ carrying = {}
                   => /\ lookup.result.raised
                      /\ lookup.result.exc = ValueError("Glossary dataset was not found.")

\* The third listed item carried the id in its id field and was returned;
\* the first item held the id in its id field too, but behind another
\* dataset_id, and was passed over.
C23_Witness ==
    /\ lookup.pc = "done"
    /\ ~lookup.result.raised
    /\ Len(lookup.items) = 3
    /\ Carrying(lookup.items, lookup.dataset_id) = {3}
    /\ lookup.items[1].id = <<lookup.dataset_id>>
    /\ lookup.items[3].dataset_id = <<>>

\* ------------------------- specification: tool invocations that may be cancelled

\* What the retry loop retries: "retry=retry_if_exception_type((
\* httpx.RequestError, httpx.HTTPStatusError))".
retry_if_exception_type(kind) ==
    kind \in {"RequestError", "HTTPStatusError"}

\* Arguments that pass validation.
GoodArgs(tool) ==
    CASE tool = "list_glossaries" -> [name |-> None]
      [] tool = "get_glossary" -> [dataset_id |-> GoodDatasetId]
      [] tool = "search_terms" ->
            [dataset_id |-> GoodDatasetId, query |-> GoodQuery, top_k |-> <<>>]
      [] tool = "retrieve_definitions" ->
            [dataset_id |-> GoodDatasetId, terms |-> GoodTerms, top_k |-> <<>>]

\* The task of an invocation is cancelled while it is suspended: waiting for
\* the bucket's lock, waiting for the response of an attempt (whose request
\* may have reached the upstream already: delivered), or in a retry delay.
\* asyncio.CancelledError is raised at the await.  It is no Exception, so the
\* handler's except clause does not run, and success is not set, so the
\* finally clause emits nothing.  Raised inside an attempt, it is handed to
\* the retry loop, which retries only what retry_if_exception_type names and
\* re-raises the rest.
Cancel(i, delivered) ==
    /\ \/ inv[i].pc = "acquire"
       \/ inv[i].pc = "request" /\ inv[i].call.pc \in {"attempt", "sleep"}
    /\ LET v == inv[i]
           waiting == v.pc = "request" /\ v.call.pc = "attempt"
           w == IF waiting /\ delivered
                THEN [v EXCEPT !.sent = Append(@, RequestOf(v.stage)),
                               !.steps = IF v.sent = <<>> THEN Append(@, "upstream") ELSE @]
                ELSE v
       IN  inv' = [inv EXCEPT ![i] =
                IF waiting /\ retry_if_exception_type("CancelledError")
                THEN [w EXCEPT !.call.pc = "sleep"]
                ELSE [w EXCEPT !.pc = "cancelled", !.error = "CancelledError"]]
    /\ UNCHANGED <<limiters, locks, bucketVars, builderVars, retryVars, appVars>>

NextHandlers ==
    \/ \E i \in Tasks, tool \in RegisteredTools : Invoke(i, tool, GoodArgs(tool))
    \/ \E i \in Tasks : Acquire(i)
    \/ \E i \in Tasks : ConsumeCheck(i)
    \/ \E i \in Tasks : ConsumeDeduct(i)
    \/ \E i \in Tasks : \E o \in GatewayOutcomes : UpstreamAttempt(i, o[1], o[2], o[3])
    \/ \E i \in Tasks : UpstreamSleep(i)
    \/ \E i \in Tasks, delivered \in BOOLEAN : Cancel(i, delivered)
    \/ GatewayTick

SpecHandlers == InitGateway /\ [][NextHandlers]_vars

\* The invocations whose consume() returned: a token was deducted for them.
Deducted(i) == inv[i].deducted > 0

\* One token of the invocation's bucket, in the unit of the field tokens.
OneToken(i) == limiters[inv[i].tool].refill_interval

\* What holds of every state for C25: an invocation has had exactly one
\* token deducted once its consume() returned and nothing before; one that
\* was denied, or cancelled while it waited for the bucket, has had nothing
\* deducted.
NoPartialDeduction ==
    \A i \in Tasks :
        Started(i) =>
            /\ inv[i].deducted \in {0, OneToken(i)}
            /\ inv[i].pc \in {"acquire", "locked", "deduct"} => inv[i].deducted = 0
            /\ inv[i].error = "Rate limit exceeded" => inv[i].deducted = 0
            /\ (inv[i].pc = "cancelled" /\ inv[i].stage = "") => inv[i].deducted = 0
            /\ inv[i].stage # "" => inv[i].deducted = OneToken(i)

\* What holds of every step for C25: a bucket's count goes down only in the
\* step that ends a successful consume(), by one token; a denied consume()
\* leaves what refill made of the bucket; a cancellation changes no bucket
\* and no lock and sends at most the request that was in flight; a cancelled
\* invocation does nothing more.
DeductionOnlyInConsume ==
    /\ \A tool \in ALLOWED_TOOLS :
           LET b == limiters[tool]
               deducting == {i \in Tasks : /\ inv[i].tool = tool
                                           /\ inv[i].pc = "deduct"
                                           /\ inv'[i].pc # "deduct"}
               denied == {i \in Tasks : /\ inv[i].tool = tool
                                        /\ inv[i].pc = "locked"
                                        /\ inv'[i].pc = "raised"}
           IN  /\ limiters'[tool].tokens < b.tokens => deducting # {}
               /\ deducting # {} => b.tokens - limiters'[tool].tokens = b.refill_interval
               /\ denied # {} => limiters'[tool] = refill(b, now)
    /\ \A i \in Tasks :
           /\ (inv[i].pc # "cancelled" /\ inv'[i].pc = "cancelled")
                  => /\ limiters' = limiters
                     /\ locks' = locks
                     /\ inv'[i].deducted = inv[i].deducted
                     /\ Len(inv'[i].sent) <= Len(inv[i].sent) + 1
           /\ inv[i].pc = "cancelled" => inv'[i] = inv[i]

\* C25: a bucket's token count decreases only inside a consume call that
\* succeeds, by exactly the amount asked for; a denied consume, or an
\* invocation cancelled while waiting for the bucket, for the network or in
\* a retry delay, leaves no partial deduction and sends no further upstream
\* request.
C25_DeductionOnlyOnSuccessfulConsume ==
    []NoPartialDeduction /\ [][DeductionOnlyInConsume]_vars

\* Of two invocations of one tool, one was admitted, sent a request that
\* failed and was cancelled in the retry delay; the other was cancelled
\* while it waited for the bucket.  The bucket lacks the one token.
C25_Witness ==
    /\ inv["t1"].pc = "cancelled"
    /\ inv["t1"].call.pc = "sleep"
    /\ Len(inv["t1"].sent) = 1
    /\ inv["t1"].deducted = OneToken("t1")
    /\ inv["t2"].pc = "cancelled"
    /\ inv["t2"].tool = inv["t1"].tool
    /\ inv["t2"].stage = ""
    /\ inv["t2"].deducted = 0
    /\ now = 0
    /\ limiters[inv["t1"].tool].tokens = 0

\* C28: an invocation the rate limiter admitted emits exactly one audit
\* record when it ends: a success record if and only if the handler returns
\* a result, an error record if and only if it raises; no invocation emits
\* more than one record.
C28_ExactlyOneAuditRecord ==
    \A i \in Tasks :
        /\ Len(inv[i].audit) <= 1
        /\ (Deducted(i) /\ inv[i].pc = "done")
               => (Len(inv[i].audit) = 1 /\ inv[i].audit[1].status = "success")
        /\ (Deducted(i) /\ inv[i].pc \in {"raised", "cancelled"})
               => (Len(inv[i].audit) = 1 /\ inv[i].audit[1].status = "error")

\* What holds of every state for C29.
OneConsumePerInvocation ==
    \A i \in Tasks :
        Started(i) =>
            /\ inv[i].consumes <= 1
            /\ inv[i].deducted <= OneToken(i)
            /\ inv[i].sent # <<>> => (inv[i].consumes = 1 /\ inv[i].deducted = OneToken(i))

\* What holds of every step for C29: a step of an invocation that has left
\* the rate limiter (an attempt, a retry delay, the fallback, a failure, a
\* cancellation) changes no bucket.
NoTokenReturned ==
    \A i \in Tasks :
        (inv[i].pc = "request" /\ inv'[i] # inv[i])
            => /\ limiters' = limiters
               /\ inv'[i].consumes = inv[i].consumes
               /\ inv'[i].deducted = inv[i].deducted

\* C29: an invocation calls consume on its tool's bucket at most once and
\* has at most one token deducted, however many upstream attempts follow
\* (retries, the direct fetch and the listing fallback of get_glossary), and
\* the token is not given back when the upstream call fails.
C29_OneTokenPerInvocation ==
    []OneConsumePerInvocation /\ [][NoTokenReturned]_vars

\* A get_glossary invocation fell back to the listing after a retried direct
\* fetch, and the listing failed: three requests and more, one token gone.
C29_Witness ==
    /\ inv["t1"].tool = "get_glossary"
    /\ inv["t1"].pc = "raised"
    /\ inv["t1"].calls = <<"direct", "listing">>
    /\ Len(inv["t1"].sent) >= 3
    /\ inv["t1"].consumes = 1
    /\ inv["t1"].deducted = OneToken("t1")
    /\ now = 0
    /\ limiters["get_glossary"].tokens = 0

====
